---- MODULE Spec2Model ----
(***************************************************************************)
(* Bureau feature extraction, aggregation and key-findings engine of the   *)
(* credit-bureau report pipeline (pipeline/bureau_feature_extractor.py,    *)
(* pipeline/bureau_feature_aggregator.py, pipeline/key_findings.py,        *)
(* pipeline/tradeline_feature_extractor.py, schemas/loan_type.py), driven  *)
(* the way pipeline/bureau_report_builder.py drives it.                    *)
(*                                                                         *)
(* Representation of the feed values:                                      *)
(*   - a text cell is a record [s, pad]: s is the text with surrounding    *)
(*     whitespace removed, pad tells whether the cell has surrounding      *)
(*     whitespace; str.strip() clears pad;                                 *)
(*   - a numeric / date cell is a record [kind, v]: kind "num" is a        *)
(*     decimal literal of the integer v, "null" the token NULL, "empty"    *)
(*     the empty cell, "text" any other unparseable text;                  *)
(*   - amounts are integers (whole rupees), ratios are kept in the unit    *)
(*     the code rounds to (1e-4 for utilization, 0.1 for vintage);         *)
(*   - a calendar date is a month index (year * 12 + month - 1).           *)
(***************************************************************************)
EXTENDS Integers, Sequences, FiniteSets, TLC

\* Python None
NoneVal == -9999

\* ------------------------------------------------------------------------
\* Generic helpers
\* ------------------------------------------------------------------------
RECURSIVE SumSeq(_)
SumSeq(s) == IF s = << >> THEN 0 ELSE Head(s) + SumSeq(Tail(s))

SeqMax(s) == CHOOSE x \in {s[i] : i \in 1..Len(s)} : \A j \in 1..Len(s) : s[j] <= x

SeqMin(s) == CHOOSE x \in {s[i] : i \in 1..Len(s)} : \A j \in 1..Len(s) : x <= s[j]

\* round(num / den) for den > 0, ties to the even integer (Python round())
RoundHalfEven(num, den) ==
    LET q == num \div den
        r == num % den
    IN  IF 2 * r < den THEN q
        ELSE IF 2 * r > den THEN q + 1
        ELSE IF q % 2 = 0 THEN q ELSE q + 1

\* ------------------------------------------------------------------------
\* Feed cells
\* ------------------------------------------------------------------------
Txt(s) == [s |-> s, pad |-> FALSE]
Padded(s) == [s |-> s, pad |-> TRUE]
Strip(t) == [t EXCEPT !.pad = FALSE]

Num(n) == [kind |-> "num", v |-> n]
NullCell == [kind |-> "null", v |-> 0]
EmptyCell == [kind |-> "empty", v |-> 0]
JunkCell == [kind |-> "text", v |-> 0]

\* float("nan"): the cell texts "nan" / "NaN" parse to a float that is not
\* None and for which every comparison is False
NaNVal == -8888
NanCell == [kind |-> "nan", v |-> 0]
IsNaN(x) == x = NaNVal

\* float("inf"): the cell texts "inf" / "Infinity" / "1e400" parse to a
\* float above every number of the feeds; int() of it raises OverflowError,
\* which the parsers' `except (ValueError, TypeError)` does not catch
InfVal == 1000000000
InfCell == [kind |-> "inf", v |-> 0]
OverflowError == -7777
\* a date cell: v is the month index of the date
DateCell(m) == [kind |-> "date", v |-> m]

\* `not value or value.strip().upper() in ("NULL", "")`
IsNullToken(c) == c.kind \in {"null", "empty"}

\* ------------------------------------------------------------------------
\* schemas/loan_type.py
\* ------------------------------------------------------------------------
LoanType == {"PL", "CC", "HL", "AL", "BL", "LAP", "LAS", "LAD", "GL", "TWL",
             "CD", "CMVL", "OTHER"}

\* LOAN_TYPE_NORMALIZATION_MAP, as the set of <<raw label, canonical type>>
LOAN_TYPE_NORMALIZATION_MAP ==
    { <<"Personal Loan", "PL">>, <<"Short Term Personal Loan", "PL">>,
      <<"Microfinance - Personal Loan", "PL">>, <<"P2P Personal Loan", "PL">>,
      <<"Loan to Professional", "PL">>, <<"Loan on Credit Card", "CC">>,
      <<"Microfinance - Housing Loan", "HL">>,
      <<"Credit Card", "CC">>, <<"Secured Credit Card", "CC">>,
      <<"Corporate Credit Card", "CC">>, <<"Fleet Card", "CC">>,
      <<"Kisan Credit Card", "CC">>,
      <<"Housing Loan", "HL">>, <<"Home Loan", "HL">>,
      <<"Pradhan Mantri Awas Yojana - Credit Link Subsidy Scheme MAY CLSS", "HL">>,
      <<"Auto Loan (Personal)", "AL">>, <<"Auto Loan", "AL">>,
      <<"Used Car Loan", "AL">>,
      <<"Commercial Vehicle Loan", "CMVL">>,
      <<"Construction Equipment Loan", "CMVL">>, <<"Tractor Loan", "CMVL">>,
      <<"P2P Auto Loan", "CMVL">>,
      <<"Business Loan - General", "BL">>, <<"Business Loan - Secured", "BL">>,
      <<"Business Loan - Unsecured", "BL">>,
      <<"Business Loan - Priority Sector - Agriculture", "BL">>,
      <<"Business Loan - Priority Sector - Others", "BL">>,
      <<"Business Loan - Priority Sector - Small Business", "BL">>,
      <<"Business Loan Against Bank Deposits", "BL">>,
      <<"Business Non-Funded Credit Facility - General", "BL">>,
      <<"Business Non-Funded Credit Facility - Priority Sector-Others", "BL">>,
      <<"Business Non-Funded Credit Facility - Priority Sector - Agriculture", "BL">>,
      <<"Business Non-Funded Credit Facility - Priority Sector - Small Business", "BL">>,
      <<"Loan_against_securities", "LAS">>,
      <<"Loan Against Shares/Securities", "LAS">>,
      <<"Loan Against Bank Deposits", "LAD">>, <<"Property Loan", "LAP">>,
      <<"Gold Loan", "GL">>, <<"Priority Sector - Gold Loan", "GL">>,
      <<"Two-wheeler Loan", "TWL">>,
      <<"Consumer Loan", "CD">>,
      <<"Education Loan", "OTHER">>, <<"P2P Education Loan", "OTHER">>,
      <<"Seller Financing", "OTHER">>, <<"Temporary Overdraft", "OTHER">>,
      <<"Overdraft", "OTHER">>,
      <<"Prime Minister Jaan Dhan Yojana - Overdraft", "OTHER">>,
      <<"Leasing", "OTHER">>, <<"Microfinance - Other", "OTHER">>,
      <<"Non-Funded Credit Facility", "OTHER">>,
      <<"Microfinance - Business Loan", "OTHER">>,
      <<"Mudra Loans - Shishu / Kishor / Tarun", "OTHER">>,
      <<"GECL Loan Secured", "OTHER">>, <<"GECL Loan Unsecured", "OTHER">>,
      <<"Other", "OTHER">> }

SECURED_LOAN_TYPES ==
    { "Gold Loan", "Priority Sector - Gold Loan", "Two-wheeler Loan",
      "Tractor Loan", "Loan Against Bank Deposits", "Loan_against_securities",
      "Loan Against Shares/Securities", "Secured Credit Card",
      "Pradhan Mantri Awas Yojana - Credit Link Subsidy Scheme MAY CLSS",
      "GECL Loan Secured", "Microfinance - Housing Loan", "Leasing",
      "P2P Auto Loan", "Housing Loan", "Home Loan", "Property Loan",
      "Auto Loan (Personal)", "Auto Loan", "Used Car Loan",
      "Commercial Vehicle Loan", "Construction Equipment Loan",
      "Business Loan - Secured", "Business Loan Against Bank Deposits" }

LOAN_TYPE_DISPLAY_NAMES ==
    [lt \in LoanType |->
        CASE lt = "PL" -> "Personal Loan"
          [] lt = "CC" -> "Credit Card"
          [] lt = "HL" -> "Home Loan"
          [] lt = "AL" -> "Auto Loan"
          [] lt = "BL" -> "Business Loan"
          [] lt = "LAP" -> "LAP"
          [] lt = "LAS" -> "LAS"
          [] lt = "LAD" -> "LAD"
          [] lt = "GL" -> "Gold Loan"
          [] lt = "TWL" -> "Two Wheeler Loan"
          [] lt = "CD" -> "Consumer Durable"
          [] lt = "CMVL" -> "Commercial Vehicle Loan"
          [] lt = "OTHER" -> "Other"]

get_loan_type_display_name(lt) == LOAN_TYPE_DISPLAY_NAMES[lt]

ON_US_SECTORS == {"KOTAK BANK", "KOTAK PRIME"}

\* a lookup that ignores surrounding whitespace
normalize_loan_type_stripped(raw) ==
    IF \E e \in LOAN_TYPE_NORMALIZATION_MAP : e[1] = raw.s
    THEN (CHOOSE e \in LOAN_TYPE_NORMALIZATION_MAP : e[1] = raw.s)[2]
    ELSE "OTHER"

\* dict.get(raw, OTHER): exact match on the whole cell, whitespace included
normalize_loan_type(raw) ==
    IF ~raw.pad /\ \E e \in LOAN_TYPE_NORMALIZATION_MAP : e[1] = raw.s
    THEN (CHOOSE e \in LOAN_TYPE_NORMALIZATION_MAP : e[1] = raw.s)[2]
    ELSE "OTHER"

is_secured(raw) == ~raw.pad /\ raw.s \in SECURED_LOAN_TYPES

\* ------------------------------------------------------------------------
\* pipeline/bureau_feature_extractor.py : field parsers
\* ------------------------------------------------------------------------
\* float(value) of a decimal literal; NULL / empty / unparseable -> default
safe_float(c, default) ==
    IF IsNullToken(c) THEN default
    ELSE IF c.kind = "num" THEN c.v
    ELSE IF c.kind = "nan" THEN NaNVal
    ELSE IF c.kind = "inf" THEN InfVal
    ELSE default

\* int(float(value)); NULL / empty / unparseable -> default.  int(nan)
\* raises ValueError, which is caught; int(inf) raises OverflowError, which
\* leaves the function
safe_int(c, default) ==
    IF IsNullToken(c) THEN default
    ELSE IF c.kind = "num" THEN c.v
    ELSE IF c.kind = "inf" THEN OverflowError
    ELSE default

\* datetime.strptime in the two accepted formats; anything else -> None
parse_date(c) ==
    IF IsNullToken(c) THEN NoneVal
    ELSE IF c.kind = "date" THEN c.v ELSE NoneVal

\* ------------------------------------------------------------------------
\* pipeline/bureau_feature_extractor.py : per-group features
\* ------------------------------------------------------------------------
\* the loop body with `>=`: a later tradeline with an equal DPD wins
max_dpd_step_last_wins(acc, tl) ==
    LET val == safe_int(tl.max_dpd, 0)
        raw_months == tl.months_since_max_dpd
    IN  IF val > 0
        THEN IF val >= acc[1]
             THEN <<val,
                    IF ~IsNullToken(raw_months) THEN safe_int(raw_months, 0)
                    ELSE NoneVal,
                    TRUE>>
             ELSE <<acc[1], acc[2], TRUE>>
        ELSE acc

\* the loop body of _compute_max_dpd, acc = <<best_val, best_months_ago, found_any>>
max_dpd_step(acc, tl) ==
    LET val == safe_int(tl.max_dpd, 0)
        raw_months == tl.months_since_max_dpd
    IN  IF val > 0
        THEN IF val > acc[1]
             THEN <<val,
                    IF ~IsNullToken(raw_months) THEN safe_int(raw_months, 0)
                    ELSE NoneVal,
                    TRUE>>
             ELSE <<acc[1], acc[2], TRUE>>
        ELSE acc

RECURSIVE max_dpd_loop(_, _)
max_dpd_loop(acc, tradelines) ==
    IF tradelines = << >> THEN acc
    ELSE max_dpd_loop(max_dpd_step(acc, Head(tradelines)), Tail(tradelines))

\* a result without the `if not found_any` return: 0 for no DPD
compute_max_dpd_zero(tradelines) ==
    LET r == max_dpd_loop(<<0, NoneVal, FALSE>>, tradelines)
    IN  <<r[1], r[2]>>

\* returns <<max_dpd, months_ago>>
compute_max_dpd(tradelines) ==
    LET r == max_dpd_loop(<<0, NoneVal, FALSE>>, tradelines)
    IN  IF ~r[3] THEN <<NoneVal, NoneVal>> ELSE <<r[1], r[2]>>

\* does _compute_max_dpd leave by an exception: _safe_int of max_dpd on
\* every tradeline, _safe_int of months_since_max_dpd where the tradeline
\* becomes the best one and the cell is no NULL token
compute_max_dpd_raises(tradelines) ==
    \E i \in 1..Len(tradelines) :
        LET tl == tradelines[i]
            val == safe_int(tl.max_dpd, 0)
            acc == max_dpd_loop(<<0, NoneVal, FALSE>>, SubSeq(tradelines, 1, i - 1))
        IN  \/ val = OverflowError
            \/ /\ val > acc[1]
               /\ ~IsNullToken(tl.months_since_max_dpd)
               /\ safe_int(tl.months_since_max_dpd, 0) = OverflowError

\* months between today and the most recent last_payment_date
compute_months_since_last_payment(tradelines, todayMonth) ==
    LET dates == SelectSeq([i \in 1..Len(tradelines) |->
                               parse_date(tradelines[i].last_payment_date)],
                           LAMBDA d : d # NoneVal)
    IN  IF dates = << >> THEN NoneVal
        ELSE LET delta == todayMonth - SeqMax(dates)
             IN  IF delta > 0 THEN delta ELSE 0

\* the 3-character fields of a dpd_string that match [A-Z]{3}
AlphaCodes == {"STD", "XXX", "WRF", "SET", "SMA", "SUB", "DBT", "LSS", "WOF"}

\* dpd_string is a sequence of 3-character fields; the codes other than
\* STD / XXX, the sorted list of distinct codes represented by their set
extract_forced_event_flags(tradelines) ==
    UNION { { tradelines[i].dpd_string[j] : j \in 1..Len(tradelines[i].dpd_string) }
            \cap (AlphaCodes \ {"STD", "XXX"}) : i \in 1..Len(tradelines) }

\* the tradelines _compute_utilization_ratio sums over
utilization_rows(tradelines) ==
    SelectSeq(tradelines,
              LAMBDA tl : Strip(tl.loan_status).s = "Live"
                          /\ safe_float(tl.creditlimit, 0) > 0)

\* a zero ratio instead of None when there is no limit
utilization_zero_default(total_outstanding, total_limit) ==
    IF total_limit <= 0 THEN 0
    ELSE RoundHalfEven(total_outstanding * 10000, total_limit)

\* None when the denominator is <= 0, else round(outstanding / limit, 4)
utilization_of_totals(total_outstanding, total_limit) ==
    IF total_limit <= 0 THEN NoneVal
    ELSE RoundHalfEven(total_outstanding * 10000, total_limit)

\* utilization in units of 1e-4 (round(x, 4)), None for non-CC or no limit
compute_utilization_ratio(tradelines, loan_type) ==
    IF loan_type # "CC" THEN NoneVal
    ELSE LET used == utilization_rows(tradelines)
             total_limit ==
                 SumSeq([i \in 1..Len(used) |-> safe_float(used[i].creditlimit, 0)])
             total_outstanding ==
                 SumSeq([i \in 1..Len(used) |->
                            safe_float(used[i].out_standing_balance, 0)])
         IN  utilization_of_totals(total_outstanding, total_limit)

closed_count_of(tradelines) ==
    Len(SelectSeq(tradelines, LAMBDA tl : Strip(tl.loan_status).s = "Closed"))

\* live counted on its own, as the rows whose status is "Live"
live_count_independent(tradelines, closed_count) ==
    Len(SelectSeq(tradelines, LAMBDA tl : Strip(tl.loan_status).s = "Live"))

\* live_count = loan_count - closed_count
live_count_of(tradelines, closed_count) == Len(tradelines) - closed_count

on_us_count_of(tradelines) ==
    Len(SelectSeq(tradelines, LAMBDA tl : Strip(tl.sector).s \in ON_US_SECTORS))

build_feature_vector(loan_type, tradelines, todayMonth) ==
    LET loan_count == Len(tradelines)
        n == Len(tradelines)
        vintages == SelectSeq([i \in 1..n |-> safe_float(tradelines[i].tl_vin_1, 0)],
                              LAMBDA v : v > 0)
        closed_count == closed_count_of(tradelines)
        dpd == compute_max_dpd(tradelines)
        on_us_count == on_us_count_of(tradelines)
        valid_opened == SelectSeq([i \in 1..n |-> parse_date(tradelines[i].date_opened)],
                                  LAMBDA d : d # NoneVal)
        valid_closed == SelectSeq([i \in 1..n |-> parse_date(tradelines[i].date_closed)],
                                  LAMBDA d : d # NoneVal)
    IN  [ loan_type |-> loan_type,
          secured |-> \E i \in 1..n : is_secured(tradelines[i].loan_type_new),
          loan_count |-> loan_count,
          total_sanctioned_amount |->
              SumSeq([i \in 1..n |-> safe_float(tradelines[i].sanction_amount, 0)]),
          total_outstanding_amount |->
              SumSeq([i \in 1..n |-> safe_float(tradelines[i].out_standing_balance, 0)]),
          avg_vintage_months |->
              IF vintages # << >>
              THEN RoundHalfEven(SumSeq(vintages) * 10, Len(vintages)) ELSE 0,
          months_since_last_payment |->
              compute_months_since_last_payment(tradelines, todayMonth),
          live_count |-> live_count_of(tradelines, closed_count),
          closed_count |-> closed_count,
          delinquency_flag |-> dpd[1] # NoneVal /\ dpd[1] > 0,
          max_dpd |-> dpd[1],
          max_dpd_months_ago |-> dpd[2],
          overdue_amount |->
              SumSeq([i \in 1..n |-> safe_float(tradelines[i].over_due_amount, 0)]),
          utilization_ratio |-> compute_utilization_ratio(tradelines, loan_type),
          earliest_opened |-> IF valid_opened # << >> THEN SeqMin(valid_opened) ELSE NoneVal,
          latest_opened |-> IF valid_opened # << >> THEN SeqMax(valid_opened) ELSE NoneVal,
          latest_closed |-> IF valid_closed # << >> THEN SeqMax(valid_closed) ELSE NoneVal,
          forced_event_flags |-> extract_forced_event_flags(tradelines),
          on_us_count |-> on_us_count,
          off_us_count |-> loan_count - on_us_count ]

\* canonical type a row is grouped under
canonical_of(row) == normalize_loan_type(Strip(row.loan_type_new))

customer_rows_of(all_rows, customer_id) ==
    SelectSeq(all_rows, LAMBDA row : safe_int(row.crn, 0) = customer_id)

\* does the filter `_safe_int(row.get("crn", "")) == customer_id` leave by
\* an exception: it parses the crn of every row of the table
customer_filter_raises(all_rows) ==
    \E i \in 1..Len(all_rows) : safe_int(all_rows[i].crn, 0) = OverflowError

\* keys of `grouped` in insertion (first-seen) order
RECURSIVE group_order(_, _)
group_order(rows, seen) ==
    IF rows = << >> THEN << >>
    ELSE LET lt == canonical_of(Head(rows))
         IN  IF lt \in seen THEN group_order(Tail(rows), seen)
             ELSE <<lt>> \o group_order(Tail(rows), seen \cup {lt})

group_rows(rows, lt) == SelectSeq(rows, LAMBDA row : canonical_of(row) = lt)

\* the dict with max_dpd_months_ago turned into the month of the max DPD,
\* counted back from the date of the call
extract_bureau_features_clocked(all_rows, customer_id, todayMonth) ==
    LET customer_rows == customer_rows_of(all_rows, customer_id)
        order == group_order(customer_rows, {})
    IN  [k \in 1..Len(order) |->
            [build_feature_vector(order[k], group_rows(customer_rows, order[k]), todayMonth)
                EXCEPT !.max_dpd_months_ago =
                    IF @ = NoneVal THEN @ ELSE todayMonth - @]]

\* the returned dict, as the sequence of its values in insertion order
extract_bureau_features_of(all_rows, customer_id, todayMonth) ==
    LET customer_rows == customer_rows_of(all_rows, customer_id)
        order == group_order(customer_rows, {})
    IN  [k \in 1..Len(order) |->
            build_feature_vector(order[k], group_rows(customer_rows, order[k]), todayMonth)]

\* does extract_bureau_features(customer_id) leave by an exception
extract_bureau_features_raises(all_rows, customer_id) ==
    \/ customer_filter_raises(all_rows)
    \/ LET customer_rows == customer_rows_of(all_rows, customer_id)
           order == group_order(customer_rows, {})
       IN  \E k \in 1..Len(order) :
               compute_max_dpd_raises(group_rows(customer_rows, order[k]))

\* compute_monthly_exposure.  A date is the index of its month, which
\* decides `opened <= last_day` and `closed >= first_day` exactly: the
\* window is a list of whole months.
n_months_default == 24

\* months_window, oldest first
months_window(todayMonth, n_months) ==
    [k \in 1..n_months |-> todayMonth - (n_months - k)]

\* yr, mo = divmod(total, 12); mo += 1; first_day.strftime("%b %Y")
month_label(total) == [mo |-> (total % 12) + 1, yr |-> total \div 12]

\* `if opened is None: continue` and the test
\* opened <= last_day and (closed is None or closed >= first_day)
tradeline_active(tl, month) ==
    LET opened == parse_date(tl.date_opened)
        closed == parse_date(tl.date_closed)
    IN  /\ opened # NoneVal
        /\ opened <= month /\ (closed = NoneVal \/ closed >= month)

\* amounts of one loan type over the window
exposure_amounts(tradelines, window) ==
    [k \in 1..Len(window) |->
        LET active == SelectSeq(tradelines, LAMBDA tl : tradeline_active(tl, window[k]))
        IN  SumSeq([i \in 1..Len(active) |-> safe_float(active[i].sanction_amount, 0)])]

\* the returned dict: months, and series as <<label, amounts>> in insertion
\* order with the all-zero series dropped
compute_monthly_exposure_of(all_rows, customer_id, todayMonth, n_months) ==
    LET window == months_window(todayMonth, n_months)
        customer_rows == customer_rows_of(all_rows, customer_id)
        order == group_order(customer_rows, {})
        all_series == [g \in 1..Len(order) |->
                          <<order[g],
                            exposure_amounts(group_rows(customer_rows, order[g]), window)>>]
    IN  [ months |-> [k \in 1..Len(window) |-> month_label(window[k])],
          series |-> SelectSeq(all_series,
                               LAMBDA e : \E k \in 1..Len(e[2]) : e[2][k] > 0) ]

\* does compute_monthly_exposure(customer_id) leave by an exception
compute_monthly_exposure_raises(all_rows, customer_id) ==
    customer_filter_raises(all_rows)

\* monthly_exposure = None
NoExposure == [months |-> << >>, series |-> << >>]

\* ------------------------------------------------------------------------
\* pipeline/bureau_feature_aggregator.py
\* ------------------------------------------------------------------------
\* the accumulators with the portfolio max DPD starting at 0
EmptySummary_zero_dpd ==
    [ total_tradelines |-> 0, live_tradelines |-> 0, closed_tradelines |-> 0,
      total_sanctioned |-> 0, total_outstanding |-> 0,
      unsecured_sanctioned |-> 0, unsecured_outstanding |-> 0,
      has_delinquency |-> FALSE,
      max_dpd |-> 0, max_dpd_months_ago |-> NoneVal,
      max_dpd_loan_type |-> "" ]

\* the accumulators before the loop
EmptySummary ==
    [ total_tradelines |-> 0, live_tradelines |-> 0, closed_tradelines |-> 0,
      total_sanctioned |-> 0, total_outstanding |-> 0,
      unsecured_sanctioned |-> 0, unsecured_outstanding |-> 0,
      has_delinquency |-> FALSE,
      max_dpd |-> NoneVal, max_dpd_months_ago |-> NoneVal,
      max_dpd_loan_type |-> "" ]

\* unsecured decided by the canonical type instead of the secured flag
counts_as_unsecured_by_type(vec) == vec.loan_type \in {"PL", "CC", "CD", "OTHER"}

\* `if not vec.secured`
counts_as_unsecured(vec) == ~vec.secured

\* `>=`: a later vector with an equal max DPD takes the provenance
dpd_replaces_on_tie(acc, vec) ==
    vec.max_dpd # NoneVal /\ (acc.max_dpd = NoneVal \/ vec.max_dpd >= acc.max_dpd)

\* does `vec` replace the portfolio max DPD tracked so far
dpd_replaces(acc, vec) ==
    vec.max_dpd # NoneVal /\ (acc.max_dpd = NoneVal \/ vec.max_dpd > acc.max_dpd)

\* the loop body of aggregate_bureau_features
aggregate_step(acc, vec) ==
    LET repl == dpd_replaces(acc, vec)
    IN  [ total_tradelines |-> acc.total_tradelines + vec.loan_count,
          live_tradelines |-> acc.live_tradelines + vec.live_count,
          closed_tradelines |-> acc.closed_tradelines + vec.closed_count,
          total_sanctioned |-> acc.total_sanctioned + vec.total_sanctioned_amount,
          total_outstanding |-> acc.total_outstanding + vec.total_outstanding_amount,
          unsecured_sanctioned |->
              IF counts_as_unsecured(vec) THEN acc.unsecured_sanctioned + vec.total_sanctioned_amount
              ELSE acc.unsecured_sanctioned,
          unsecured_outstanding |->
              IF counts_as_unsecured(vec) THEN acc.unsecured_outstanding + vec.total_outstanding_amount
              ELSE acc.unsecured_outstanding,
          has_delinquency |-> acc.has_delinquency \/ vec.delinquency_flag,
          max_dpd |-> IF repl THEN vec.max_dpd ELSE acc.max_dpd,
          max_dpd_months_ago |->
              IF repl THEN vec.max_dpd_months_ago ELSE acc.max_dpd_months_ago,
          max_dpd_loan_type |->
              IF repl THEN get_loan_type_display_name(vec.loan_type)
              ELSE acc.max_dpd_loan_type ]

RECURSIVE aggregate_loop(_, _)
aggregate_loop(acc, vecs) ==
    IF vecs = << >> THEN acc
    ELSE aggregate_loop(aggregate_step(acc, Head(vecs)), Tail(vecs))

\* max_dpd_loan_type "" stands for None: no display name is empty
aggregate_bureau_features(vecs) == aggregate_loop(EmptySummary, vecs)

\* ------------------------------------------------------------------------
\* pipeline/key_findings.py
\* ------------------------------------------------------------------------
\* A KeyFinding.  `finding` is the sentence template of the f-string, `nums`
\* the values the f-string embeds, each with the unit or label the sentence
\* prints next to it, `subject` the loan-type display name the sentence
\* starts with (or ""), `events` the forced-event codes it lists, `timelines`
\* the "[...]" suffixes it carries.  `inference` is fixed by `finding`
\* and `severity` and is not represented.
KeyFinding(category, severity, finding, nums, subject, events, timelines) ==
    [ category |-> category, severity |-> severity, finding |-> finding,
      nums |-> nums, subject |-> subject, events |-> events,
      timelines |-> timelines ]

\* _timeline_str(vec): the parts of the string; `scope` is the name printed
\* in front of it ("" when none)
timeline_str(vec, scope) ==
    [ scope |-> scope,
      from |-> vec.earliest_opened,
      to |-> IF vec.earliest_opened # NoneVal /\ vec.latest_opened # NoneVal
                /\ vec.earliest_opened # vec.latest_opened
             THEN vec.latest_opened ELSE NoneVal,
      closed |-> vec.latest_closed,
      active |-> vec.latest_closed = NoneVal /\ vec.live_count > 0 ]

\* the string is empty
timeline_empty(t) == t.from = NoneVal /\ t.closed = NoneVal /\ ~t.active

\* f" [{tl}]" if tl else ""
timeline_suffix(vec, scope) ==
    LET t == timeline_str(vec, scope)
    IN  IF timeline_empty(t) THEN << >> ELSE <<t>>

\* _lt_timeline(lt): suffix of the vector of loan type lt, if there is one
lt_timeline(vectors, lt) ==
    LET hit == SelectSeq(vectors, LAMBDA v : v.loan_type = lt)
    IN  IF hit = << >> THEN << >> ELSE timeline_suffix(hit[1], "")

\* dpd_timeline of _portfolio_findings
dpd_timeline_of(ei, vectors) ==
    IF ei.max_dpd_loan_type = "" THEN << >>
    ELSE LET hit == SelectSeq(vectors,
                       LAMBDA v : get_loan_type_display_name(v.loan_type)
                                    = ei.max_dpd_loan_type)
         IN  IF hit = << >> THEN << >>
             ELSE timeline_suffix(hit[1], ei.max_dpd_loan_type)

\* the band tests with `>=`
portfolio_dpd_band_inclusive(ei) ==
    IF ei.max_dpd # NoneVal /\ ei.max_dpd >= 90 THEN "high_risk"
    ELSE IF ei.max_dpd # NoneVal /\ ei.max_dpd >= 30 THEN "moderate_risk"
    ELSE IF ei.max_dpd # NoneVal /\ ei.max_dpd > 0 THEN "concern"
    ELSE ""

\* the if / elif chain under `if ei.has_delinquency`: severity, "" for none
portfolio_dpd_band(ei) ==
    IF ei.max_dpd # NoneVal /\ ei.max_dpd > 90 THEN "high_risk"
    ELSE IF ei.max_dpd # NoneVal /\ ei.max_dpd > 30 THEN "moderate_risk"
    ELSE IF ei.max_dpd # NoneVal /\ ei.max_dpd > 0 THEN "concern"
    ELSE ""

portfolio_delinquency(ei, vectors) ==
    LET tl == dpd_timeline_of(ei, vectors)
        band == portfolio_dpd_band(ei)
    IN  IF ei.has_delinquency
        THEN IF band = "" THEN << >>
             ELSE <<KeyFinding("Delinquency", band,
                        IF band = "concern"
                        THEN "Minor delinquency detected with Max DPD of"
                        ELSE "Active delinquency detected with Max DPD of",
                        {<<"days", ei.max_dpd>>}, "", {}, tl)>>
        ELSE <<KeyFinding("Delinquency", "positive",
                   "No delinquency detected across the portfolio",
                   {}, "", {}, << >>)>>

portfolio_unsecured(ei) ==
    IF ei.total_sanctioned > 0
    THEN LET nums == {<<"% of total", RoundHalfEven(ei.unsecured_sanctioned * 100,
                                                     ei.total_sanctioned)>>,
                      <<"INR unsecured", ei.unsecured_sanctioned>>,
                      <<"INR total", ei.total_sanctioned>>}
         IN  IF ei.unsecured_sanctioned * 100 > 80 * ei.total_sanctioned
             THEN <<KeyFinding("Portfolio", "moderate_risk", "Unsecured sanction is",
                               nums, "", {}, << >>)>>
             ELSE IF ei.unsecured_sanctioned * 100 > 50 * ei.total_sanctioned
             THEN <<KeyFinding("Portfolio", "concern", "Unsecured sanction is",
                               nums, "", {}, << >>)>>
             ELSE << >>
    ELSE << >>

portfolio_outstanding(ei) ==
    IF ei.total_sanctioned > 0
       /\ ei.total_outstanding * 100 > 80 * ei.total_sanctioned
    THEN <<KeyFinding("Portfolio", "concern", "Outstanding balance is",
               {<<"% of total sanctioned amount",
                  RoundHalfEven(ei.total_outstanding * 100, ei.total_sanctioned)>>},
               "", {}, << >>)>>
    ELSE << >>

portfolio_diversity(vectors) ==
    IF Len(vectors) >= 4
    THEN <<KeyFinding("Portfolio", "neutral", "Portfolio spans",
                      {<<"loan products", Len(vectors)>>}, "", {}, << >>)>>
    ELSE << >>

portfolio_findings(ei, vectors) ==
    portfolio_delinquency(ei, vectors) \o portfolio_unsecured(ei)
        \o portfolio_outstanding(ei) \o portfolio_diversity(vectors)

\* the utilization bands with the lower bands closed on the left
cc_utilization_band_inclusive(util) ==
    IF util >= 7500 THEN "high_risk"
    ELSE IF util >= 5000 THEN "moderate_risk"
    ELSE IF util <= 3000 THEN "positive"
    ELSE ""

\* the if / elif chain on util = utilization_ratio * 100: severity, "" for
\* none.  util is in 1e-4 units, so 75 % is 7500.
cc_utilization_band(util) ==
    IF util > 7500 THEN "high_risk"
    ELSE IF util > 5000 THEN "moderate_risk"
    ELSE IF util <= 3000 THEN "positive"
    ELSE ""

\* the per-type DPD bands closed on the left
loan_type_dpd_band_inclusive(max_dpd) ==
    IF max_dpd >= 90 THEN "high_risk"
    ELSE IF max_dpd >= 30 THEN "moderate_risk"
    ELSE ""

\* the if / elif on vec.max_dpd: severity, "" for none
loan_type_dpd_band(max_dpd) ==
    IF max_dpd > 90 THEN "high_risk"
    ELSE IF max_dpd > 30 THEN "moderate_risk"
    ELSE ""

\* the findings of one iteration of the loop of _loan_type_findings
loan_type_findings_of(vec) ==
    LET lt_name == get_loan_type_display_name(vec.loan_type)
        tl == timeline_suffix(vec, "")
        util == vec.utilization_ratio
        utilF ==
            IF vec.loan_type = "CC" /\ util # NoneVal /\ cc_utilization_band(util) # ""
            THEN <<KeyFinding("Utilization", cc_utilization_band(util),
                       "Credit card utilization at",
                       {<<"%", RoundHalfEven(util, 100)>>}, "", {}, tl)>>
            ELSE << >>
        dpdF ==
            IF vec.delinquency_flag /\ vec.max_dpd # NoneVal /\ vec.max_dpd > 0
               /\ loan_type_dpd_band(vec.max_dpd) # ""
            THEN <<KeyFinding("Delinquency", loan_type_dpd_band(vec.max_dpd),
                       "Delinquent with Max DPD of",
                       {<<"days", vec.max_dpd>>}, lt_name, {}, tl)>>
            ELSE << >>
        overdueF ==
            IF vec.overdue_amount > 0
            THEN <<KeyFinding("Outstanding", "concern", "Overdue amount of",
                       {<<"INR", vec.overdue_amount>>}, lt_name, {}, tl)>>
            ELSE << >>
        forcedF ==
            IF vec.forced_event_flags # {}
            THEN <<KeyFinding("Adverse Events", "high_risk", "Forced events detected",
                       {}, lt_name, vec.forced_event_flags, tl)>>
            ELSE << >>
    IN  utilF \o dpdF \o overdueF \o forcedF

RECURSIVE loan_type_findings(_)
loan_type_findings(vectors) ==
    IF vectors = << >> THEN << >>
    ELSE loan_type_findings_of(Head(vectors)) \o loan_type_findings(Tail(vectors))

\* ------------------------------------------------------------------------
\* pipeline/tradeline_feature_extractor.py
\* ------------------------------------------------------------------------
\* A numeric cell of tl_features.csv is a decimal literal with two decimals:
\* [kind |-> "num", v |-> n] is the literal n / 100, and a float field holds
\* n (hundredths).  Dec(w, c) is the float w.c in that unit.
Dec(w, c) == w * 100 + c

\* <, <=, >, >=, == on floats
FLt(x, y) == ~IsNaN(x) /\ ~IsNaN(y) /\ x < y
FLe(x, y) == ~IsNaN(x) /\ ~IsNaN(y) /\ x <= y
FGt(x, y) == ~IsNaN(x) /\ ~IsNaN(y) /\ x > y
FGe(x, y) == ~IsNaN(x) /\ ~IsNaN(y) /\ x >= y
FEq(x, y) == ~IsNaN(x) /\ ~IsNaN(y) /\ x = y

\* _COLUMN_MAP as <<csv column, field name>>
COLUMN_MAP ==
    { <<"monsnclasttrop_pl_onc", "months_since_last_trade_pl">>,
      <<"monsnclasttrop_uns_onc", "months_since_last_trade_uns">>,
      <<"no_tr_open_l6m_pl_onc", "new_trades_6m_pl">>,
      <<"no_trades_all_onc", "total_trades">>,
      <<"max_dpd_l6m_cc_onc", "max_dpd_6m_cc">>,
      <<"max_dpd_l6m_pl_onc", "max_dpd_6m_pl">>,
      <<"max_dpd_l9m_cc_onc", "max_dpd_9m_cc">>,
      <<"mon_sin_last_0p_uns_op", "months_since_last_0p_uns">>,
      <<"monsinlast_0p_pl_onc", "months_since_last_0p_pl">>,
      <<"pct_0p_l24m_all_onc", "pct_0plus_24m_all">>,
      <<"pct_0p_l24m_pl_onc", "pct_0plus_24m_pl">>,
      <<"pct_missed_pymt_last18m_all", "pct_missed_payments_18m">>,
      <<"pct_tr_0p_l12m_all_onc", "pct_trades_0plus_12m">>,
      <<"ratio_good_closed_loans_pl", "ratio_good_closed_pl">>,
      <<"pct_bal_cc_lv", "cc_balance_utilization_pct">>,
      <<"pct_bal_pl_lv", "pl_balance_remaining_pct">>,
      <<"uns_enq_l12m", "unsecured_enquiries_12m">>,
      <<"tr_to_enq_ratio_uns_l24m", "trade_to_enquiry_ratio_uns_24m">>,
      <<"interpurchase_time_l12m_plbl", "interpurchase_time_12m_plbl">>,
      <<"interpurchase_time_l6m_plbl", "interpurchase_time_6m_plbl">>,
      <<"interpurchase_time_l24m_all", "interpurchase_time_24m_all">>,
      <<"interpurchase_time_l9m_hl_lap", "interpurchase_time_9m_hl_lap">>,
      <<"interpurchase_time_l24m_hl_lap", "interpurchase_time_24m_hl_lap">>,
      <<"interpurchase_time_l24m_twl", "interpurchase_time_24m_twl">>,
      <<"interpurchase_time_l12m_cl", "interpurchase_time_12m_cl">> }

TLColumns == { e[1] : e \in COLUMN_MAP }
TLFields == { e[2] : e \in COLUMN_MAP }
column_of(field) == (CHOOSE e \in COLUMN_MAP : e[2] = field)[1]

INT_FIELDS == { "new_trades_6m_pl", "total_trades", "max_dpd_6m_cc",
                "max_dpd_6m_pl", "max_dpd_9m_cc", "unsecured_enquiries_12m" }

\* float(value), None for NULL / empty / unparseable
safe_optional_float(c) ==
    IF IsNullToken(c) THEN NoneVal
    ELSE IF c.kind = "num" THEN c.v
    ELSE IF c.kind = "nan" THEN NaNVal
    ELSE IF c.kind = "inf" THEN InfVal
    ELSE NoneVal

\* int(float(value)): truncation towards zero of the literal; int(nan)
\* raises ValueError, which is caught; int(inf) raises OverflowError, which
\* leaves the function
safe_optional_int(c) ==
    IF IsNullToken(c) THEN NoneVal
    ELSE IF c.kind = "num"
         THEN IF c.v >= 0 THEN c.v \div 100 ELSE -((-c.v) \div 100)
    ELSE IF c.kind = "inf" THEN OverflowError
    ELSE NoneVal

\* kwargs built from the column map
parse_tl_row(row) ==
    [f \in TLFields |->
        IF f \in INT_FIELDS THEN safe_optional_int(row[column_of(f)])
        ELSE safe_optional_float(row[column_of(f)])]

\* repair 1 taking 0 for absent
fix_months_since_last_0p_uns_falsy(kw) ==
    IF kw["months_since_last_0p_uns"] \in {NoneVal, 0} /\ kw["months_since_last_0p_pl"] # NoneVal
    THEN kw["months_since_last_0p_pl"] ELSE kw["months_since_last_0p_uns"]

\* repair 1: unsecured 0+ DPD recency takes the PL value when absent
fix_months_since_last_0p_uns(kw) ==
    IF kw["months_since_last_0p_uns"] = NoneVal /\ kw["months_since_last_0p_pl"] # NoneVal
    THEN kw["months_since_last_0p_pl"] ELSE kw["months_since_last_0p_uns"]

\* repair 2: the 9M CC window contains the 6M window
fix_max_dpd_9m_cc(kw) ==
    LET dpd_6m_cc == kw["max_dpd_6m_cc"]
        dpd_9m_cc == kw["max_dpd_9m_cc"]
    IN  IF dpd_6m_cc # NoneVal /\ dpd_9m_cc # NoneVal
        THEN IF dpd_9m_cc < dpd_6m_cc THEN dpd_6m_cc ELSE dpd_9m_cc
        ELSE IF dpd_6m_cc # NoneVal /\ dpd_9m_cc = NoneVal THEN dpd_6m_cc
        ELSE dpd_9m_cc

\* repair 3: PL trades are a subset of all trades
fix_pct_0plus_24m_all(kw) ==
    LET pct_all == kw["pct_0plus_24m_all"]
        pct_pl == kw["pct_0plus_24m_pl"]
    IN  IF pct_all # NoneVal /\ pct_pl # NoneVal /\ FGt(pct_pl, pct_all)
        THEN pct_pl ELSE pct_all

repair_tl(kw) ==
    [kw EXCEPT !["months_since_last_0p_uns"] = fix_months_since_last_0p_uns(kw),
               !["max_dpd_9m_cc"] = fix_max_dpd_9m_cc(kw),
               !["pct_0plus_24m_all"] = fix_pct_0plus_24m_all(kw)]

\* does the crn cell of a tl_features row denote customer_id
tl_crn_matches(row, customer_id) ==
    ~IsNullToken(row.crn) /\ row.crn.kind = "num" /\ row.crn.v = customer_id

\* TradelineFeatures of the first matching row, NoTF when there is none
NoTF == [f \in {"absent"} |-> NoneVal]

extract_tradeline_features_of(all_rows, customer_id) ==
    LET hit == SelectSeq(all_rows, LAMBDA row : tl_crn_matches(row, customer_id))
    IN  IF hit = << >> THEN NoTF ELSE repair_tl(parse_tl_row(hit[1]))

\* does extract_tradeline_features(customer_id) leave by an exception: the
\* search parses the crn of the rows up to the first match with
\* int(float(crn_val)) under `except (ValueError, TypeError)`, then the
\* integer fields of the matching row with _safe_optional_int
extract_tradeline_features_raises(all_rows, customer_id) ==
    \/ \E i \in 1..Len(all_rows) :
           /\ all_rows[i].crn.kind = "inf"
           /\ \A j \in 1..(i - 1) : ~tl_crn_matches(all_rows[j], customer_id)
    \/ LET hit == SelectSeq(all_rows, LAMBDA row : tl_crn_matches(row, customer_id))
       IN  /\ hit # << >>
           /\ \E f \in INT_FIELDS : parse_tl_row(hit[1])[f] = OverflowError

\* ------------------------------------------------------------------------
\* pipeline/key_findings.py : tradeline and composite passes
\* ------------------------------------------------------------------------
\* a test that takes None for a value
Present_any(x) == TRUE

\* `is not None`
Present(x) == x # NoneVal

tf_new_trades(tf, pl_tl) ==
    IF Present(tf.new_trades_6m_pl)
    THEN IF tf.new_trades_6m_pl >= 3
         THEN <<KeyFinding("Loan Activity", "high_risk",
                   "new personal loan trades opened in last 6 months",
                   {<<"trades", tf.new_trades_6m_pl>>}, "", {}, pl_tl)>>
         ELSE IF tf.new_trades_6m_pl >= 2
         THEN <<KeyFinding("Loan Activity", "moderate_risk",
                   "new personal loan trades opened in last 6 months",
                   {<<"trades", tf.new_trades_6m_pl>>}, "", {}, pl_tl)>>
         ELSE << >>
    ELSE << >>

tf_last_trade(tf, pl_tl) ==
    IF Present(tf.months_since_last_trade_pl)
       /\ FLt(tf.months_since_last_trade_pl, Dec(2, 0))
    THEN <<KeyFinding("Loan Activity", "concern", "Last PL trade opened",
               {<<"months ago", tf.months_since_last_trade_pl>>}, "", {}, pl_tl)>>
    ELSE << >>

\* one entry of dpd_field_map
tf_dpd_window(val, label, lt_tl) ==
    IF Present(val) /\ val > 0
    THEN IF val > 90
         THEN <<KeyFinding("DPD & Delinquency", "high_risk", "Max DPD for",
                           {<<"days", val>>}, label, {}, lt_tl)>>
         ELSE IF val > 30
         THEN <<KeyFinding("DPD & Delinquency", "moderate_risk", "Max DPD for",
                           {<<"days", val>>}, label, {}, lt_tl)>>
         ELSE <<KeyFinding("DPD & Delinquency", "concern", "Max DPD for",
                           {<<"days", val>>}, label, {}, lt_tl)>>
    ELSE << >>

tf_dpd_fields(tf) == <<tf.max_dpd_6m_cc, tf.max_dpd_6m_pl, tf.max_dpd_9m_cc>>

tf_clean_dpd(tf) ==
    IF \A i \in 1..3 : Present(tf_dpd_fields(tf)[i]) /\ tf_dpd_fields(tf)[i] = 0
    THEN <<KeyFinding("DPD & Delinquency", "positive",
               "Zero DPD across all products in recent 6-9 month windows",
               {}, "", {}, << >>)>>
    ELSE << >>

\* has_dpd of the 0%-missed branch of _tradeline_findings
tf_has_dpd(tf) ==
    \E i \in 1..3 : Present(tf_dpd_fields(tf)[i]) /\ tf_dpd_fields(tf)[i] > 0

tf_missed_payments(tf) ==
    IF Present(tf.pct_missed_payments_18m)
    THEN IF FGt(tf.pct_missed_payments_18m, Dec(10, 0))
         THEN <<KeyFinding("Payment Behavior", "high_risk",
                   "missed payments in last 18 months",
                   {<<"%", tf.pct_missed_payments_18m>>}, "", {}, << >>)>>
         ELSE IF FGt(tf.pct_missed_payments_18m, 0)
         THEN <<KeyFinding("Payment Behavior", "concern",
                   "missed payments in last 18 months",
                   {<<"%", tf.pct_missed_payments_18m>>}, "", {}, << >>)>>
         ELSE IF tf_has_dpd(tf)
         THEN <<KeyFinding("Payment Behavior", "concern",
                   "No formal missed payments in last 18 months, but DPD delays detected on some products",
                   {}, "", {}, << >>)>>
         ELSE <<KeyFinding("Payment Behavior", "positive",
                   "No missed payments in last 18 months",
                   {}, "", {}, << >>)>>
    ELSE << >>

\* the good-closure rule with the positive band open at 0.8
tf_good_closure_strict(tf) ==
    IF Present(tf.ratio_good_closed_pl)
    THEN LET nums == {<<"%", tf.ratio_good_closed_pl>>}
         IN  IF FGt(tf.ratio_good_closed_pl, Dec(0, 80))
             THEN <<KeyFinding("Payment Behavior", "positive",
                       "Good closure ratio for PL loans", nums, "", {}, << >>)>>
             ELSE IF FLt(tf.ratio_good_closed_pl, Dec(0, 50))
             THEN <<KeyFinding("Payment Behavior", "high_risk",
                       "Good closure ratio for PL loans", nums, "", {}, << >>)>>
             ELSE IF FLt(tf.ratio_good_closed_pl, Dec(0, 70))
             THEN <<KeyFinding("Payment Behavior", "concern",
                       "Good closure ratio for PL loans", nums, "", {}, << >>)>>
             ELSE << >>
    ELSE << >>

tf_good_closure(tf) ==
    IF Present(tf.ratio_good_closed_pl)
    THEN LET nums == {<<"%", tf.ratio_good_closed_pl>>}
         IN  IF FGe(tf.ratio_good_closed_pl, Dec(0, 80))
             THEN <<KeyFinding("Payment Behavior", "positive",
                       "Good closure ratio for PL loans", nums, "", {}, << >>)>>
             ELSE IF FLt(tf.ratio_good_closed_pl, Dec(0, 50))
             THEN <<KeyFinding("Payment Behavior", "high_risk",
                       "Good closure ratio for PL loans", nums, "", {}, << >>)>>
             ELSE IF FLt(tf.ratio_good_closed_pl, Dec(0, 70))
             THEN <<KeyFinding("Payment Behavior", "concern",
                       "Good closure ratio for PL loans", nums, "", {}, << >>)>>
             ELSE << >>
    ELSE << >>

tf_pl_balance(tf) ==
    IF Present(tf.pl_balance_remaining_pct)
    THEN LET nums == {<<"%", tf.pl_balance_remaining_pct>>}
         IN  IF FGt(tf.pl_balance_remaining_pct, Dec(80, 0))
             THEN <<KeyFinding("Utilization", "high_risk", "PL balance remaining",
                               nums, "", {}, << >>)>>
             ELSE IF FLe(tf.pl_balance_remaining_pct, Dec(30, 0))
             THEN <<KeyFinding("Utilization", "positive", "PL balance remaining",
                               nums, "", {}, << >>)>>
             ELSE << >>
    ELSE << >>

tf_enquiries(tf) ==
    IF Present(tf.unsecured_enquiries_12m)
    THEN LET nums == {<<"enquiries", tf.unsecured_enquiries_12m>>}
         IN  IF tf.unsecured_enquiries_12m > 15
             THEN <<KeyFinding("Enquiry Behavior", "high_risk",
                       "unsecured enquiries in last 12 months", nums, "", {}, << >>)>>
             ELSE IF tf.unsecured_enquiries_12m > 10
             THEN <<KeyFinding("Enquiry Behavior", "moderate_risk",
                       "unsecured enquiries in last 12 months", nums, "", {}, << >>)>>
             ELSE IF tf.unsecured_enquiries_12m <= 3
             THEN <<KeyFinding("Enquiry Behavior", "positive",
                       "unsecured enquiries in last 12 months", nums, "", {}, << >>)>>
             ELSE << >>
    ELSE << >>

tf_trade_ratio(tf) ==
    IF Present(tf.trade_to_enquiry_ratio_uns_24m)
    THEN LET nums == {<<"%", tf.trade_to_enquiry_ratio_uns_24m>>}
         IN  IF FLt(tf.trade_to_enquiry_ratio_uns_24m, Dec(20, 0))
             THEN <<KeyFinding("Enquiry Behavior", "concern",
                       "Trade-to-enquiry ratio (unsecured, 24M)", nums, "", {}, << >>)>>
             ELSE IF FGt(tf.trade_to_enquiry_ratio_uns_24m, Dec(50, 0))
             THEN <<KeyFinding("Enquiry Behavior", "positive",
                       "Trade-to-enquiry ratio (unsecured, 24M)", nums, "", {}, << >>)>>
             ELSE << >>
    ELSE << >>

tf_interpurchase(tf) ==
    IF Present(tf.interpurchase_time_12m_plbl)
    THEN LET nums == {<<"months", tf.interpurchase_time_12m_plbl>>}
         IN  IF FLt(tf.interpurchase_time_12m_plbl, Dec(1, 0))
             THEN <<KeyFinding("Loan Velocity", "high_risk",
                       "Avg time between PL/BL acquisitions (12M)", nums, "", {}, << >>)>>
             ELSE IF FLt(tf.interpurchase_time_12m_plbl, Dec(2, 0))
             THEN <<KeyFinding("Loan Velocity", "concern",
                       "Avg time between PL/BL acquisitions (12M)", nums, "", {}, << >>)>>
             ELSE IF FGe(tf.interpurchase_time_12m_plbl, Dec(6, 0))
             THEN <<KeyFinding("Loan Velocity", "positive",
                       "Avg time between PL/BL acquisitions (12M)", nums, "", {}, << >>)>>
             ELSE << >>
    ELSE << >>

tradeline_findings(tf, vectors) ==
    LET pl_tl == lt_timeline(vectors, "PL")
        cc_tl == lt_timeline(vectors, "CC")
    IN  tf_new_trades(tf, pl_tl) \o tf_last_trade(tf, pl_tl)
        \o tf_dpd_window(tf.max_dpd_6m_cc, "Credit Card (6M)", cc_tl)
        \o tf_dpd_window(tf.max_dpd_6m_pl, "Personal Loan (6M)", pl_tl)
        \o tf_dpd_window(tf.max_dpd_9m_cc, "Credit Card (9M)", cc_tl)
        \o tf_clean_dpd(tf) \o tf_missed_payments(tf) \o tf_good_closure(tf)
        \o tf_pl_balance(tf) \o tf_enquiries(tf) \o tf_trade_ratio(tf)
        \o tf_interpurchase(tf)

\* the credit-hungry rule firing on the enquiries alone when the number of
\* new trades is absent
is_credit_hungry_lenient(enquiries, new_pl_6m) ==
    Present(enquiries) /\ enquiries > 10 /\ (~Present(new_pl_6m) \/ new_pl_6m >= 2)

\* enquiries is not None and enquiries > 10 and new_pl_6m is not None and
\* new_pl_6m >= 2
is_credit_hungry(enquiries, new_pl_6m) ==
    Present(enquiries) /\ enquiries > 10 /\ Present(new_pl_6m) /\ new_pl_6m >= 2

composite_findings(ei, tf, vectors) ==
    LET pl_tl == lt_timeline(vectors, "PL")
        cc_tl == lt_timeline(vectors, "CC")
        enquiries == tf.unsecured_enquiries_12m
        new_pl_6m == tf.new_trades_6m_pl
        ipt_plbl == tf.interpurchase_time_12m_plbl
        cc_util == tf.cc_balance_utilization_pct
        pl_bal == tf.pl_balance_remaining_pct
        trade_ratio == tf.trade_to_enquiry_ratio_uns_24m
        dpd_clean == \A i \in 1..3 : Present(tf_dpd_fields(tf)[i]) /\ tf_dpd_fields(tf)[i] = 0
        missed_clean == Present(tf.pct_missed_payments_18m)
                        /\ FEq(tf.pct_missed_payments_18m, 0)
        good_ratio == tf.ratio_good_closed_pl
        has_tf_dpd == ~dpd_clean
        has_portfolio_dpd == ei.has_delinquency /\ ei.max_dpd # NoneVal /\ ei.max_dpd > 0
        tf_details ==
            (IF Present(tf.max_dpd_6m_cc) /\ tf.max_dpd_6m_cc > 0
             THEN {<<"CC 6M days", tf.max_dpd_6m_cc>>} ELSE {})
            \cup (IF Present(tf.max_dpd_6m_pl) /\ tf.max_dpd_6m_pl > 0
                  THEN {<<"PL 6M days", tf.max_dpd_6m_pl>>} ELSE {})
            \cup (IF Present(tf.max_dpd_9m_cc) /\ tf.max_dpd_9m_cc > 0
                  THEN {<<"CC 9M days", tf.max_dpd_9m_cc>>} ELSE {})
        dpd_details ==
            IF has_portfolio_dpd /\ tf_details = {}
            THEN {<<"Portfolio Max DPD days", ei.max_dpd>>} ELSE tf_details
        hungry ==
            IF is_credit_hungry(enquiries, new_pl_6m)
            THEN <<KeyFinding("Composite Signal", "high_risk",
                       "High enquiry volume combined with new PL trades in 6M",
                       {<<"enquiries in 12M", enquiries>>, <<"new PL trades", new_pl_6m>>},
                       "", {}, pl_tl)>>
            ELSE << >>
        stacking ==
            IF Present(ipt_plbl) /\ FLt(ipt_plbl, Dec(2, 0))
               /\ Present(new_pl_6m) /\ new_pl_6m >= 2
            THEN <<KeyFinding("Composite Signal", "high_risk",
                       "Avg months between PL/BL with new trades in 6M",
                       {<<"months", ipt_plbl>>, <<"new trades", new_pl_6m>>},
                       "", {}, pl_tl)>>
            ELSE << >>
        leverage ==
            IF Present(cc_util) /\ FGt(cc_util, Dec(50, 0))
               /\ Present(pl_bal) /\ FGt(pl_bal, Dec(50, 0))
            THEN <<KeyFinding("Composite Signal", "moderate_risk",
                       "CC utilization and PL balance remaining",
                       {<<"% CC utilization", cc_util>>, <<"% PL balance", pl_bal>>},
                       "", {}, cc_tl \o pl_tl)>>
            ELSE << >>
        conversion ==
            IF Present(enquiries) /\ enquiries > 10
               /\ Present(trade_ratio) /\ FLt(trade_ratio, Dec(30, 0))
            THEN <<KeyFinding("Composite Signal", "moderate_risk",
                       "High enquiries but low trade-to-enquiry conversion",
                       {<<"enquiries", enquiries>>, <<"% conversion", trade_ratio>>},
                       "", {}, << >>)>>
            ELSE << >>
        exemplary ==
            IF dpd_clean /\ missed_clean /\ Present(good_ratio)
               /\ FGe(good_ratio, Dec(0, 80))
            THEN <<KeyFinding("Composite Signal", "positive",
                       "Zero DPD, no missed payments, and good PL closure ratio",
                       {<<"% good closure", good_ratio>>}, "", {}, << >>)>>
            ELSE << >>
        late ==
            IF missed_clean /\ (has_tf_dpd \/ has_portfolio_dpd) /\ dpd_details # {}
            THEN <<KeyFinding("Composite Signal", "concern",
                       "No formal missed payments but DPD detected",
                       dpd_details, "", {}, << >>)>>
            ELSE << >>
    IN  hungry \o stacking \o leverage \o conversion \o exemplary \o late

\* severity_order.get(f.severity, 3)
severity_rank(sev) ==
    CASE sev = "high_risk" -> 0
      [] sev = "moderate_risk" -> 1
      [] sev = "concern" -> 2
      [] sev = "neutral" -> 3
      [] sev = "positive" -> 4
      [] OTHER -> 3

\* an unstable insertion: x goes in front of the elements of equal key
RECURSIVE insert_by_rank_unstable(_, _)
insert_by_rank_unstable(sorted, x) ==
    IF sorted = << >> THEN <<x>>
    ELSE IF severity_rank(Head(sorted).severity) < severity_rank(x.severity)
         THEN <<Head(sorted)>> \o insert_by_rank_unstable(Tail(sorted), x)
         ELSE <<x>> \o sorted

\* list.sort(key=...) is stable: x goes after every element whose key is <=
RECURSIVE insert_by_rank(_, _)
insert_by_rank(sorted, x) ==
    IF sorted = << >> THEN <<x>>
    ELSE IF severity_rank(Head(sorted).severity) <= severity_rank(x.severity)
         THEN <<Head(sorted)>> \o insert_by_rank(Tail(sorted), x)
         ELSE <<x>> \o sorted

RECURSIVE sort_by_severity(_, _)
sort_by_severity(done, rest) ==
    IF rest = << >> THEN done
    ELSE sort_by_severity(insert_by_rank(done, Head(rest)), Tail(rest))

\* the list `findings` before the sort: the four passes in order
generated_findings(ei, vectors, tf) ==
    portfolio_findings(ei, vectors) \o loan_type_findings(vectors)
        \o (IF tf # NoTF THEN tradeline_findings(tf, vectors) ELSE << >>)
        \o (IF tf # NoTF THEN composite_findings(ei, tf, vectors) ELSE << >>)

extract_key_findings_of(ei, vectors, tf) ==
    sort_by_severity(<< >>, generated_findings(ei, vectors, tf))

\* ------------------------------------------------------------------------
\* The feeds: bounded sets of rows of dpd_data.csv and tl_features.csv
\* ------------------------------------------------------------------------
\* longest dpd_data.csv enumerated row by row
MaxRows == 2

\* date.today() as a month index
TodayMonth == 24

CustomerIds == {1}

\* a live off-us personal loan of customer 1 without DPD, limit or dates
BaseRow ==
    [ crn |-> Num(1), loan_type_new |-> Txt("Personal Loan"),
      loan_status |-> Txt("Live"), sector |-> Txt("HDFC BANK"),
      max_dpd |-> NullCell, months_since_max_dpd |-> NullCell,
      creditlimit |-> NullCell, out_standing_balance |-> Num(0),
      sanction_amount |-> Num(100), over_due_amount |-> NullCell,
      dpd_string |-> <<"000", "STD">>,
      date_opened |-> NullCell, date_closed |-> NullCell,
      last_payment_date |-> NullCell, tl_vin_1 |-> NullCell ]

\* status x sector, for personal loans
StatusRows ==
    { [BaseRow EXCEPT !.loan_status = st, !.sector = sec] :
        st \in {Txt("Live"), Txt("Closed"), Txt("Written-Off")},
        sec \in {Txt("KOTAK BANK"), Txt("HDFC BANK")} }
    \cup { [BaseRow EXCEPT !.loan_status = Padded("Closed"),
                           !.sector = Padded("KOTAK PRIME")] }

\* credit cards: status x limit x outstanding
CardRows ==
    { [BaseRow EXCEPT !.loan_type_new = Txt("Credit Card"), !.loan_status = st,
                      !.creditlimit = lim, !.out_standing_balance = out] :
        st \in {Txt("Live"), Txt("Closed"), Txt("Written-Off")},
        lim \in {Num(0), Num(100)}, out \in {Num(40), Num(120)} }

SecuredCardRow ==
    [BaseRow EXCEPT !.loan_type_new = Txt("Secured Credit Card"),
                    !.creditlimit = Num(200), !.out_standing_balance = Num(80)]

\* live cards around the utilization thresholds, a negative limit
CardLevelRows ==
    { [BaseRow EXCEPT !.loan_type_new = Txt("Credit Card"),
                      !.creditlimit = Num(100), !.out_standing_balance = out] :
        out \in {Num(30), Num(50), Num(75), Num(76)} }
    \cup { SecuredCardRow,
           [BaseRow EXCEPT !.loan_type_new = Txt("Credit Card"),
                           !.creditlimit = Num(-50), !.out_standing_balance = Num(40)] }

\* max_dpd x months_since_max_dpd
DpdCells ==
    { <<Num(30), Num(2)>>, <<Num(45), NullCell>>, <<Num(45), Num(2)>>,
      <<Num(45), Num(7)>>, <<Num(90), Num(2)>>, <<Num(91), Num(2)>>,
      <<Num(91), Num(7)>>, <<Num(0), Num(2)>>, <<JunkCell, Num(2)>>,
      <<Num(45), JunkCell>> }

DpdRows ==
    { [BaseRow EXCEPT !.max_dpd = d[1], !.months_since_max_dpd = d[2]] : d \in DpdCells }
    \cup { [BaseRow EXCEPT !.loan_type_new = Txt("Home Loan"),
                           !.max_dpd = d[1], !.months_since_max_dpd = d[2]] :
             d \in { <<Num(30), Num(2)>>, <<Num(45), Num(2)>>,
                     <<Num(45), Num(7)>>, <<Num(91), Num(2)>> } }

AmountRows ==
    { [BaseRow EXCEPT !.sanction_amount = sa, !.out_standing_balance = out] :
        sa \in {Num(0), Num(300)}, out \in {Num(90), Num(280)} }
    \cup { [BaseRow EXCEPT !.loan_type_new = Txt("Home Loan"),
                           !.sanction_amount = Num(300)] }

OtherRows ==
    { [BaseRow EXCEPT !.over_due_amount = Num(50)],
      [BaseRow EXCEPT !.dpd_string = <<"000", "WRF", "XXX", "SET">>,
                      !.loan_status = Txt("Written-Off")],
      [BaseRow EXCEPT !.date_opened = DateCell(10), !.tl_vin_1 = Num(14),
                      !.last_payment_date = DateCell(22)],
      [BaseRow EXCEPT !.date_opened = DateCell(12), !.date_closed = DateCell(20),
                      !.loan_status = Txt("Closed"), !.tl_vin_1 = Num(9)],
      [BaseRow EXCEPT !.crn = Num(2), !.max_dpd = Num(91)],
      [BaseRow EXCEPT !.crn = NullCell],
      [BaseRow EXCEPT !.loan_type_new = Txt("Crypto Loan")],
      [BaseRow EXCEPT !.loan_type_new = Padded("Home Loan")],
      [BaseRow EXCEPT !.loan_type_new = Txt("Gold Loan")],
      [BaseRow EXCEPT !.loan_type_new = Txt("Auto Loan")] }

\* status x opening month x closing month; month 0 is before the window of
\* 24 months, month 30 after it
DateRows ==
    { [BaseRow EXCEPT !.loan_status = st, !.date_opened = op, !.date_closed = cl] :
        st \in {Txt("Live"), Txt("Closed")},
        op \in {DateCell(0), DateCell(10)},
        cl \in {NullCell, DateCell(5), DateCell(20)} }
    \cup { [BaseRow EXCEPT !.date_closed = DateCell(20)],
           [BaseRow EXCEPT !.date_opened = JunkCell, !.date_closed = DateCell(20)],
           [BaseRow EXCEPT !.date_opened = DateCell(30)],
           [BaseRow EXCEPT !.date_opened = DateCell(10), !.sanction_amount = Num(0)],
           [BaseRow EXCEPT !.loan_type_new = Txt("Home Loan"),
                           !.date_opened = DateCell(12), !.sanction_amount = Num(300)] }

\* cells that are no decimal literal: infinity in the customer id, in
\* max_dpd and in months_since_max_dpd, NaN in max_dpd
MalformedRows ==
    { BaseRow,
      [BaseRow EXCEPT !.crn = InfCell],
      [BaseRow EXCEPT !.max_dpd = InfCell],
      [BaseRow EXCEPT !.max_dpd = Num(45), !.months_since_max_dpd = InfCell],
      [BaseRow EXCEPT !.max_dpd = Num(30), !.months_since_max_dpd = Num(2)],
      [BaseRow EXCEPT !.max_dpd = NanCell] }

\* the rows of one file are drawn from one of these slices
RowSlices ==
    { StatusRows,
      MalformedRows,
      OtherRows \cup {BaseRow},
      CardRows \cup {BaseRow},
      CardLevelRows \cup {BaseRow},
      DpdRows,
      AmountRows \cup { SecuredCardRow,
                        [BaseRow EXCEPT !.loan_type_new = Txt("Home Loan"),
                                        !.max_dpd = Num(45),
                                        !.months_since_max_dpd = Num(2)],
                        [BaseRow EXCEPT !.max_dpd = Num(91),
                                        !.months_since_max_dpd = Num(2)] } }

\* fixed longer files: three personal loans, one closed, DPD 45 two months
\* ago; and a portfolio of four products
ScenarioFiles ==
    { << [BaseRow EXCEPT !.max_dpd = Num(45), !.months_since_max_dpd = Num(2)],
         [BaseRow EXCEPT !.loan_status = Txt("Closed")],
         BaseRow >>,
      << BaseRow,
         [BaseRow EXCEPT !.loan_type_new = Txt("Credit Card"),
                         !.creditlimit = Num(100), !.out_standing_balance = Num(40)],
         [BaseRow EXCEPT !.loan_type_new = Txt("Home Loan")],
         [BaseRow EXCEPT !.loan_type_new = Txt("Gold Loan"), !.max_dpd = Num(91)] >> }

BureauFiles ==
    UNION { UNION { [1..n -> rows] : n \in 0..MaxRows } : rows \in RowSlices }
        \cup ScenarioFiles

\* files of dated tradelines
DateFiles == UNION { [1..n -> DateRows] : n \in 1..MaxRows }

\* a few files that cover the portfolio cases the behavioural rules look at
SmallBureauFiles ==
    { << >>,
      << BaseRow >>,
      << [BaseRow EXCEPT !.max_dpd = Num(45), !.months_since_max_dpd = Num(2)] >>,
      << [BaseRow EXCEPT !.loan_type_new = Txt("Credit Card"),
                         !.creditlimit = Num(100), !.out_standing_balance = Num(40)],
         [BaseRow EXCEPT !.max_dpd = Num(91), !.months_since_max_dpd = Num(7)] >> }

\* a tl_features.csv row of customer 1 with every feature cell NULL
BaseTLRow == [c \in TLColumns \cup {"crn"} |-> IF c = "crn" THEN Num(1) ELSE NullCell]

TLCell(w) == Num(Dec(w, 0))

\* payment-behaviour cells: missed %, the three DPD windows, closure ratio
PaymentTLRows ==
    { [BaseTLRow EXCEPT !["pct_missed_pymt_last18m_all"] = pm,
                        !["max_dpd_l6m_cc_onc"] = d6c,
                        !["max_dpd_l6m_pl_onc"] = d6p,
                        !["max_dpd_l9m_cc_onc"] = d9c,
                        !["ratio_good_closed_loans_pl"] = rg] :
        pm \in {NullCell, TLCell(0), TLCell(5), TLCell(12)},
        d6c \in {NullCell, TLCell(0), TLCell(15)},
        d6p \in {NullCell, TLCell(0), TLCell(15)},
        d9c \in {NullCell, TLCell(0), TLCell(45)},
        rg \in {NullCell, Num(Dec(0, 85))} }

\* one behavioural cell at a time, at and around each threshold
SignalCells ==
    { <<"no_tr_open_l6m_pl_onc",
        {TLCell(1), TLCell(2), Num(Dec(2, 90)), TLCell(3)}>>,
      <<"monsnclasttrop_pl_onc", {Num(Dec(1, 99)), TLCell(2), NanCell}>>,
      <<"ratio_good_closed_loans_pl",
        {Num(Dec(0, 49)), Num(Dec(0, 50)), Num(Dec(0, 69)), Num(Dec(0, 70)),
         Num(Dec(0, 79)), Num(Dec(0, 80)), NanCell, JunkCell}>>,
      <<"pct_bal_pl_lv",
        {TLCell(30), Num(Dec(30, 1)), TLCell(80), Num(Dec(80, 1)), EmptyCell}>>,
      <<"uns_enq_l12m",
        {TLCell(3), TLCell(4), TLCell(10), TLCell(11), TLCell(15), TLCell(16)}>>,
      <<"tr_to_enq_ratio_uns_l24m",
        {Num(Dec(19, 99)), TLCell(20), TLCell(50), Num(Dec(50, 1))}>>,
      <<"interpurchase_time_l12m_plbl",
        {Num(Dec(0, 99)), TLCell(1), Num(Dec(1, 99)), TLCell(2),
         Num(Dec(5, 99)), TLCell(6)}>> }

SignalTLRows ==
    UNION { { [BaseTLRow EXCEPT ![e[1]] = c] : c \in e[2] } : e \in SignalCells }

\* two behavioural cells at a time, around the thresholds of the composites
PairCells ==
    { <<"uns_enq_l12m", {TLCell(10), TLCell(11)},
        "no_tr_open_l6m_pl_onc", {TLCell(1), TLCell(2)}>>,
      <<"interpurchase_time_l12m_plbl", {Num(Dec(1, 99)), TLCell(2), NanCell},
        "no_tr_open_l6m_pl_onc", {TLCell(1), TLCell(2)}>>,
      <<"pct_bal_cc_lv", {TLCell(50), Num(Dec(50, 1))},
        "pct_bal_pl_lv", {NullCell, TLCell(50), Num(Dec(50, 1))}>>,
      <<"uns_enq_l12m", {TLCell(10), TLCell(11)},
        "tr_to_enq_ratio_uns_l24m", {Num(Dec(29, 99)), TLCell(30)}>> }

PairTLRows ==
    UNION { { [BaseTLRow EXCEPT ![e[1]] = c1, ![e[3]] = c2] : c1 \in e[2], c2 \in e[4] } :
            e \in PairCells }

\* clean windows and no missed payments, closure ratio around 0.8
CleanTLRows ==
    { [BaseTLRow EXCEPT !["pct_missed_pymt_last18m_all"] = TLCell(0),
                        !["max_dpd_l6m_cc_onc"] = TLCell(0),
                        !["max_dpd_l6m_pl_onc"] = TLCell(0),
                        !["max_dpd_l9m_cc_onc"] = TLCell(0),
                        !["ratio_good_closed_loans_pl"] = rg] :
        rg \in {Num(Dec(0, 79)), Num(Dec(0, 80)), NanCell} }

\* the overlapping windows the repairs look at
RepairCells ==
    { <<"mon_sin_last_0p_uns_op", {NullCell, TLCell(0), TLCell(3)},
        "monsinlast_0p_pl_onc", {NullCell, TLCell(0), TLCell(5)}>>,
      <<"max_dpd_l6m_cc_onc", {NullCell, TLCell(0), TLCell(15), TLCell(60)},
        "max_dpd_l9m_cc_onc", {NullCell, TLCell(0), TLCell(15), TLCell(45)}>>,
      <<"pct_0p_l24m_all_onc", {NullCell, TLCell(0), TLCell(10), NanCell},
        "pct_0p_l24m_pl_onc", {NullCell, TLCell(0), TLCell(10), TLCell(20), NanCell}>> }

RepairTLRows ==
    UNION { { [BaseTLRow EXCEPT ![e[1]] = c1, ![e[3]] = c2] : c1 \in e[2], c2 \in e[4] } :
            e \in RepairCells }

TLRows ==
    PaymentTLRows \cup SignalTLRows \cup PairTLRows \cup CleanTLRows \cup RepairTLRows

\* infinity in the customer id before and after the customer's row, and in
\* an integer field of the customer's row
MalformedTLFiles ==
    { << [BaseTLRow EXCEPT !["crn"] = InfCell], BaseTLRow >>,
      << BaseTLRow, [BaseTLRow EXCEPT !["crn"] = InfCell] >>,
      << [BaseTLRow EXCEPT !["crn"] = JunkCell], BaseTLRow >>,
      << [BaseTLRow EXCEPT !["max_dpd_l6m_cc_onc"] = InfCell,
                           !["pct_missed_pymt_last18m_all"] = TLCell(0)] >> }

TLFiles ==
    { << >> } \cup { <<r>> : r \in TLRows }
    \cup { << [BaseTLRow EXCEPT !["crn"] = Num(2)], r >> : r \in {BaseTLRow} }
    \cup MalformedTLFiles

SmallTLFiles ==
    { << >>,
      << BaseTLRow >>,
      << [BaseTLRow EXCEPT !["pct_missed_pymt_last18m_all"] = TLCell(0),
                           !["max_dpd_l6m_cc_onc"] = TLCell(0),
                           !["max_dpd_l6m_pl_onc"] = TLCell(0),
                           !["max_dpd_l9m_cc_onc"] = TLCell(0),
                           !["no_tr_open_l6m_pl_onc"] = TLCell(3),
                           !["uns_enq_l12m"] = TLCell(12)] >> }

\* <<dpd_data.csv, tl_features.csv>>
Feeds ==
    (BureauFiles \X SmallTLFiles) \cup (SmallBureauFiles \X TLFiles)
        \cup (DateFiles \X {<< >>})

\* ------------------------------------------------------------------------
\* pipeline/bureau_report_builder.py : build_bureau_report as a state machine
\* ------------------------------------------------------------------------
VARIABLES
    bureau_file,          \* rows of dpd_data.csv on disk
    tl_file,              \* rows of tl_features.csv on disk
    bureau_df,            \* _bureau_df: <<>> is None, <<rows>> a loaded table
    tl_features_df,       \* _tl_features_df, likewise
    today,                \* date.today(), month index
    pc,                   \* position in build_bureau_report
    customer_id,
    feature_vectors,
    executive_inputs,
    tradeline_features,
    key_findings,
    monthly_exposure,
    call_arg,             \* argument of a function called on its own
    call_ret,             \* and what it returned
    bureau_reads,         \* how many times dpd_data.csv was opened
    tl_reads              \* how many times tl_features.csv was opened

vars == <<bureau_file, tl_file, bureau_df, tl_features_df, today, pc, customer_id,
          feature_vectors, executive_inputs, tradeline_features, key_findings,
          monthly_exposure, call_arg, call_ret, bureau_reads, tl_reads>>

\* the variables the pipeline leaves alone
call_vars == <<call_arg, call_ret>>

Init ==
    /\ \E f \in Feeds : bureau_file = f[1] /\ tl_file = f[2]
    /\ bureau_df = << >>
    /\ tl_features_df = << >>
    /\ today = TodayMonth
    /\ pc = "idle"
    /\ customer_id = 0
    /\ feature_vectors = << >>
    /\ executive_inputs = EmptySummary
    /\ tradeline_features = NoTF
    /\ key_findings = << >>
    /\ monthly_exposure = NoExposure
    /\ call_arg = NoneVal
    /\ call_ret = NoneVal
    /\ bureau_reads = 0
    /\ tl_reads = 0

\* `if not _bureau_df or force_reload`: an empty table read again
bureau_file_opened_when_empty(cache, force_reload) ==
    cache = << >> \/ cache = << << >> >> \/ force_reload

\* `if _bureau_df is None or force_reload`: does the call open the file
bureau_file_opened(cache, force_reload) ==
    cache = << >> \/ force_reload

\* _load_bureau_data(): the table after the call
load_bureau_data(cache, file, force_reload) ==
    IF bureau_file_opened(cache, force_reload) THEN <<file>> ELSE cache

\* `if _tl_features_df is None or force_reload`
tl_file_opened(cache, force_reload) ==
    cache = << >> \/ force_reload

\* _load_tl_features()
load_tl_features(cache, file, force_reload) ==
    IF tl_file_opened(cache, force_reload) THEN <<file>> ELSE cache

\* the count of opens of a file after a call of its loader
reads_after(reads, opened) == IF opened THEN reads + 1 ELSE reads

\* step 1: feature_vectors = extract_bureau_features(customer_id), outside
\* any try: an exception leaves build_bureau_report, which returns no report
ExtractBureauFeatures(c) ==
    /\ pc = "idle"
    /\ customer_id' = c
    /\ bureau_df' = load_bureau_data(bureau_df, bureau_file, FALSE)
    /\ bureau_reads' = reads_after(bureau_reads, bureau_file_opened(bureau_df, FALSE))
    /\ IF extract_bureau_features_raises(bureau_df'[1], c)
       THEN /\ feature_vectors' = feature_vectors
            /\ pc' = "raised"
       ELSE /\ feature_vectors' = extract_bureau_features_of(bureau_df'[1], c, today)
            /\ pc' = "extracted"
    /\ UNCHANGED <<bureau_file, tl_file, tl_features_df, today, executive_inputs,
                   tradeline_features, key_findings, monthly_exposure, call_vars,
                   tl_reads>>

\* step 2: executive_inputs = aggregate_bureau_features(feature_vectors)
AggregateBureauFeatures ==
    /\ pc = "extracted"
    /\ executive_inputs' = aggregate_bureau_features(feature_vectors)
    /\ pc' = "aggregated"
    /\ UNCHANGED <<bureau_file, tl_file, bureau_df, tl_features_df, today, customer_id,
                   feature_vectors, tradeline_features, key_findings,
                   monthly_exposure, call_vars, bureau_reads, tl_reads>>

\* step 2b: tradeline_features = extract_tradeline_features(customer_id) in
\* try / except Exception: the field stays None when the call raises
ExtractTradelineFeatures ==
    /\ pc = "aggregated"
    /\ tl_features_df' = load_tl_features(tl_features_df, tl_file, FALSE)
    /\ tl_reads' = reads_after(tl_reads, tl_file_opened(tl_features_df, FALSE))
    /\ tradeline_features' =
           IF extract_tradeline_features_raises(tl_features_df'[1], customer_id)
           THEN NoTF
           ELSE extract_tradeline_features_of(tl_features_df'[1], customer_id)
    /\ pc' = "tl_extracted"
    /\ UNCHANGED <<bureau_file, tl_file, bureau_df, today, customer_id,
                   feature_vectors, executive_inputs, key_findings,
                   monthly_exposure, call_vars, bureau_reads>>

\* step 4: key_findings = extract_key_findings(...)
ExtractKeyFindings ==
    /\ pc = "tl_extracted"
    /\ key_findings' = extract_key_findings_of(executive_inputs, feature_vectors,
                                               tradeline_features)
    /\ pc' = "done"
    /\ UNCHANGED <<bureau_file, tl_file, bureau_df, tl_features_df, today, customer_id,
                   feature_vectors, executive_inputs, tradeline_features,
                   monthly_exposure, call_vars, bureau_reads, tl_reads>>

\* step 4b: monthly_exposure = compute_monthly_exposure(customer_id) in
\* try / except Exception
ComputeMonthlyExposure ==
    /\ pc = "done"
    /\ bureau_df' = load_bureau_data(bureau_df, bureau_file, FALSE)
    /\ bureau_reads' = reads_after(bureau_reads, bureau_file_opened(bureau_df, FALSE))
    /\ monthly_exposure' =
           IF compute_monthly_exposure_raises(bureau_df'[1], customer_id)
           THEN NoExposure
           ELSE compute_monthly_exposure_of(bureau_df'[1], customer_id,
                                            today, n_months_default)
    /\ pc' = "reported"
    /\ UNCHANGED <<bureau_file, tl_file, tl_features_df, today, customer_id,
                   feature_vectors, executive_inputs, tradeline_features,
                   key_findings, call_vars, tl_reads>>

Next ==
    \/ \E c \in CustomerIds : ExtractBureauFeatures(c)
    \/ AggregateBureauFeatures
    \/ ExtractTradelineFeatures
    \/ ExtractKeyFindings
    \/ ComputeMonthlyExposure

Spec == Init /\ [][Next]_vars

\* ------------------------------------------------------------------------
\* schemas/loan_type.py : normalize_loan_type and is_secured called on a label
\* ------------------------------------------------------------------------
LabelKeys == { e[1] : e \in LOAN_TYPE_NORMALIZATION_MAP }

\* every key, every key with surrounding whitespace, and strings that are
\* no key: the empty string, case variants, an unknown product
Labels ==
    { Txt(k) : k \in LabelKeys } \cup { Padded(k) : k \in LabelKeys }
    \cup { Txt(""), Padded(""), Txt("personal loan"), Txt("PERSONAL LOAN"),
           Txt("home loan"), Txt("gold loan"), Txt("GOLD LOAN"),
           Txt("Crypto Loan"), Txt("OTHER"), Txt("PL") }

InitLoanType ==
    /\ bureau_file = << >> /\ tl_file = << >>
    /\ bureau_df = << >> /\ tl_features_df = << >>
    /\ today = TodayMonth
    /\ pc = "call"
    /\ customer_id = 0
    /\ feature_vectors = << >>
    /\ executive_inputs = EmptySummary
    /\ tradeline_features = NoTF
    /\ key_findings = << >>
    /\ monthly_exposure = NoExposure
    /\ call_arg \in Labels
    /\ call_ret = NoneVal
    /\ bureau_reads = 0
    /\ tl_reads = 0

pipeline_vars ==
    <<bureau_file, tl_file, bureau_df, tl_features_df, today, customer_id,
      feature_vectors, executive_inputs, tradeline_features, key_findings,
      monthly_exposure, bureau_reads, tl_reads>>

NormalizeLoanType ==
    /\ pc = "call"
    /\ call_ret' = normalize_loan_type(call_arg)
    /\ pc' = "normalize_loan_type"
    /\ UNCHANGED <<pipeline_vars, call_arg>>

IsSecured ==
    /\ pc = "call"
    /\ call_ret' = is_secured(call_arg)
    /\ pc' = "is_secured"
    /\ UNCHANGED <<pipeline_vars, call_arg>>

NextLoanType == NormalizeLoanType \/ IsSecured

SpecLoanType == InitLoanType /\ [][NextLoanType]_vars

\* ------------------------------------------------------------------------
\* The extractors, the loaders and tools/bureau_chat.py :
\* bureau_credit_card_info called in any order, while the date advances and
\* the files change on disk
\* ------------------------------------------------------------------------
\* months the date advances by
MaxTicks == 1

\* times one file is opened
MaxReads == 2

CallCustomers == {1, 2}

\* values of n_months
CallMonths == {1, 3}

\* a personal loan of customer 1 opened last month, last paid two months ago
DatedRow ==
    [BaseRow EXCEPT !.date_opened = DateCell(TodayMonth - 1),
                    !.last_payment_date = DateCell(TodayMonth - 2),
                    !.tl_vin_1 = Num(14)]

\* rows of customer 1: a card, a home loan with a negative sanction amount,
\* a gold loan without sanction amount; rows of customer 2, one with
\* infinity in max_dpd; a row whose customer id is infinity
CallRows ==
    [ dated |-> DatedRow,
      card |-> [BaseRow EXCEPT !.loan_type_new = Txt("Credit Card"),
                               !.creditlimit = Num(100),
                               !.out_standing_balance = Num(40)],
      negative |-> [DatedRow EXCEPT !.loan_type_new = Txt("Home Loan"),
                                    !.sanction_amount = Num(-100)],
      zero |-> [DatedRow EXCEPT !.loan_type_new = Txt("Gold Loan"),
                                !.sanction_amount = Num(0)],
      other |-> [DatedRow EXCEPT !.crn = Num(2),
                                 !.loan_type_new = Txt("Credit Card"),
                                 !.max_dpd = Num(45), !.months_since_max_dpd = Num(2)],
      other_inf |-> [BaseRow EXCEPT !.crn = Num(2), !.max_dpd = InfCell],
      id_inf |-> [BaseRow EXCEPT !.crn = InfCell] ]

CallBureauFiles ==
    { << CallRows.id_inf, CallRows.other_inf, CallRows.card, CallRows.dated >>,
      << CallRows.other, CallRows.negative, CallRows.zero >> }

CallTLRow == [BaseTLRow EXCEPT !["pct_bal_cc_lv"] = TLCell(12)]

\* tl_features.csv: a row whose customer id is infinity, a row of customer 2,
\* the row of customer 1
CallTLFile ==
    << [BaseTLRow EXCEPT !["crn"] = InfCell],
       [BaseTLRow EXCEPT !["crn"] = Num(2)],
       CallTLRow >>

\* the arguments of a call, the date it ran on and, when the call before it
\* was the same call on the same table, the date that one ran on
NoCall == [force_reload |-> FALSE, n_months |-> 0, today |-> 0, prev_today |-> NoneVal]

\* what a call returned next to the result variables: the exception that
\* left it, the fields of the dict of bureau_credit_card_info
NoResult == [raised |-> "", has_credit_cards |-> FALSE, count |-> 0]

InitCalls ==
    /\ bureau_file \in CallBureauFiles
    /\ tl_file = CallTLFile
    /\ bureau_df = << >>
    /\ tl_features_df = << >>
    /\ today = TodayMonth
    /\ pc = "ready"
    /\ customer_id = 0
    /\ feature_vectors = << >>
    /\ executive_inputs = EmptySummary
    /\ tradeline_features = NoTF
    /\ key_findings = << >>
    /\ monthly_exposure = NoExposure
    /\ call_arg = NoCall
    /\ call_ret = NoResult
    /\ bureau_reads = 0
    /\ tl_reads = 0

\* the earlier call was this call, returned, and this one opens no file
RepeatOf(name, c, opened) ==
    IF pc = name /\ customer_id = c /\ ~opened /\ call_ret.raised = ""
    THEN call_arg.today ELSE NoneVal

CallLoadBureauData(force_reload) ==
    /\ bureau_file_opened(bureau_df, force_reload) => bureau_reads < MaxReads
    /\ bureau_df' = load_bureau_data(bureau_df, bureau_file, force_reload)
    /\ bureau_reads' = reads_after(bureau_reads, bureau_file_opened(bureau_df, force_reload))
    /\ pc' = "_load_bureau_data"
    /\ customer_id' = 0
    /\ call_arg' = [NoCall EXCEPT !.force_reload = force_reload, !.today = today]
    /\ call_ret' = NoResult
    /\ feature_vectors' = << >>
    /\ tradeline_features' = NoTF
    /\ monthly_exposure' = NoExposure
    /\ UNCHANGED <<bureau_file, tl_file, tl_features_df, today, executive_inputs,
                   key_findings, tl_reads>>

CallLoadTLFeatures(force_reload) ==
    /\ tl_file_opened(tl_features_df, force_reload) => tl_reads < MaxReads
    /\ tl_features_df' = load_tl_features(tl_features_df, tl_file, force_reload)
    /\ tl_reads' = reads_after(tl_reads, tl_file_opened(tl_features_df, force_reload))
    /\ pc' = "_load_tl_features"
    /\ customer_id' = 0
    /\ call_arg' = [NoCall EXCEPT !.force_reload = force_reload, !.today = today]
    /\ call_ret' = NoResult
    /\ feature_vectors' = << >>
    /\ tradeline_features' = NoTF
    /\ monthly_exposure' = NoExposure
    /\ UNCHANGED <<bureau_file, tl_file, bureau_df, today, executive_inputs,
                   key_findings, bureau_reads>>

CallExtractBureauFeatures(c) ==
    /\ bureau_file_opened(bureau_df, FALSE) => bureau_reads < MaxReads
    /\ bureau_df' = load_bureau_data(bureau_df, bureau_file, FALSE)
    /\ bureau_reads' = reads_after(bureau_reads, bureau_file_opened(bureau_df, FALSE))
    /\ pc' = "extract_bureau_features"
    /\ customer_id' = c
    /\ call_arg' = [NoCall EXCEPT
                      !.today = today,
                      !.prev_today = RepeatOf("extract_bureau_features", c,
                                              bureau_file_opened(bureau_df, FALSE))]
    /\ IF extract_bureau_features_raises(bureau_df'[1], c)
       THEN /\ feature_vectors' = << >>
            /\ call_ret' = [NoResult EXCEPT !.raised = "OverflowError"]
       ELSE /\ feature_vectors' = extract_bureau_features_of(bureau_df'[1], c, today)
            /\ call_ret' = NoResult
    /\ tradeline_features' = NoTF
    /\ monthly_exposure' = NoExposure
    /\ UNCHANGED <<bureau_file, tl_file, tl_features_df, today, executive_inputs,
                   key_findings, tl_reads>>

CallComputeMonthlyExposure(c, n_months) ==
    /\ bureau_file_opened(bureau_df, FALSE) => bureau_reads < MaxReads
    /\ bureau_df' = load_bureau_data(bureau_df, bureau_file, FALSE)
    /\ bureau_reads' = reads_after(bureau_reads, bureau_file_opened(bureau_df, FALSE))
    /\ pc' = "compute_monthly_exposure"
    /\ customer_id' = c
    /\ call_arg' = [NoCall EXCEPT !.n_months = n_months, !.today = today]
    /\ IF compute_monthly_exposure_raises(bureau_df'[1], c)
       THEN /\ monthly_exposure' = NoExposure
            /\ call_ret' = [NoResult EXCEPT !.raised = "OverflowError"]
       ELSE /\ monthly_exposure' =
                   compute_monthly_exposure_of(bureau_df'[1], c, today, n_months)
            /\ call_ret' = NoResult
    /\ feature_vectors' = << >>
    /\ tradeline_features' = NoTF
    /\ UNCHANGED <<bureau_file, tl_file, tl_features_df, today, executive_inputs,
                   key_findings, tl_reads>>

CallExtractTradelineFeatures(c) ==
    /\ tl_file_opened(tl_features_df, FALSE) => tl_reads < MaxReads
    /\ tl_features_df' = load_tl_features(tl_features_df, tl_file, FALSE)
    /\ tl_reads' = reads_after(tl_reads, tl_file_opened(tl_features_df, FALSE))
    /\ pc' = "extract_tradeline_features"
    /\ customer_id' = c
    /\ call_arg' = [NoCall EXCEPT !.today = today]
    /\ IF extract_tradeline_features_raises(tl_features_df'[1], c)
       THEN /\ tradeline_features' = NoTF
            /\ call_ret' = [NoResult EXCEPT !.raised = "OverflowError"]
       ELSE /\ tradeline_features' = extract_tradeline_features_of(tl_features_df'[1], c)
            /\ call_ret' = NoResult
    /\ feature_vectors' = << >>
    /\ monthly_exposure' = NoExposure
    /\ UNCHANGED <<bureau_file, tl_file, bureau_df, today, executive_inputs,
                   key_findings, bureau_reads>>

\* vectors.get(key): the vectors of loan type key, at most one
vectors_get(vectors, key) == SelectSeq(vectors, LAMBDA v : v.loan_type = key)

\* bureau_credit_card_info: extract_bureau_features, then the attribute
\* LoanType.CREDIT_CARD, then the dict, then extract_tradeline_features
CallBureauCreditCardInfo(c) ==
    /\ bureau_file_opened(bureau_df, FALSE) => bureau_reads < MaxReads
    /\ tl_file_opened(tl_features_df, FALSE) => tl_reads < MaxReads
    /\ bureau_df' = load_bureau_data(bureau_df, bureau_file, FALSE)
    /\ bureau_reads' = reads_after(bureau_reads, bureau_file_opened(bureau_df, FALSE))
    /\ pc' = "bureau_credit_card_info"
    /\ customer_id' = c
    /\ call_arg' = [NoCall EXCEPT !.today = today]
    /\ feature_vectors' = << >>
    /\ tradeline_features' = NoTF
    /\ monthly_exposure' = NoExposure
    /\ IF extract_bureau_features_raises(bureau_df'[1], c)
       THEN /\ call_ret' = [NoResult EXCEPT !.raised = "OverflowError"]
            /\ UNCHANGED <<tl_features_df, tl_reads>>
       ELSE IF "CREDIT_CARD" \notin LoanType
       THEN /\ call_ret' = [NoResult EXCEPT !.raised = "AttributeError"]
            /\ UNCHANGED <<tl_features_df, tl_reads>>
       ELSE LET vectors == extract_bureau_features_of(bureau_df'[1], c, today)
                cc_vec == vectors_get(vectors, "CREDIT_CARD")
            IN  /\ tl_features_df' = load_tl_features(tl_features_df, tl_file, FALSE)
                /\ tl_reads' = reads_after(tl_reads,
                                           tl_file_opened(tl_features_df, FALSE))
                /\ call_ret' =
                       IF extract_tradeline_features_raises(tl_features_df'[1], c)
                       THEN [NoResult EXCEPT !.raised = "OverflowError"]
                       ELSE [ raised |-> "",
                              has_credit_cards |-> cc_vec # << >>,
                              count |-> IF cc_vec # << >> THEN cc_vec[1].loan_count
                                        ELSE 0 ]
    /\ UNCHANGED <<bureau_file, tl_file, today, executive_inputs, key_findings>>

\* date.today() moves to the next month
Tick ==
    /\ today < TodayMonth + MaxTicks
    /\ today' = today + 1
    /\ UNCHANGED <<bureau_file, tl_file, bureau_df, tl_features_df, pc, customer_id,
                   feature_vectors, executive_inputs, tradeline_features, key_findings,
                   monthly_exposure, call_vars, bureau_reads, tl_reads>>

\* the export that writes dpd_data.csv and tl_features.csv runs again: each
\* file loses its first row
drop_first_row(file) == IF file = << >> THEN file ELSE Tail(file)

RewriteFiles ==
    /\ bureau_file # << >> \/ tl_file # << >>
    /\ bureau_file' = drop_first_row(bureau_file)
    /\ tl_file' = drop_first_row(tl_file)
    /\ UNCHANGED <<bureau_df, tl_features_df, today, pc, customer_id,
                   feature_vectors, executive_inputs, tradeline_features, key_findings,
                   monthly_exposure, call_vars, bureau_reads, tl_reads>>

NextCalls ==
    \/ \E force_reload \in BOOLEAN : CallLoadBureauData(force_reload)
    \/ \E force_reload \in BOOLEAN : CallLoadTLFeatures(force_reload)
    \/ \E c \in CallCustomers : CallExtractBureauFeatures(c)
    \/ \E c \in CallCustomers, n_months \in CallMonths : CallComputeMonthlyExposure(c, n_months)
    \/ \E c \in CallCustomers : CallExtractTradelineFeatures(c)
    \/ \E c \in CallCustomers : CallBureauCreditCardInfo(c)
    \/ Tick
    \/ RewriteFiles

SpecCalls == InitCalls /\ [][NextCalls]_vars

\* ------------------------------------------------------------------------
\* The field parsers called on a cell
\* ------------------------------------------------------------------------
\* NULL, the empty cell, text, nan, inf, decimal literals (as integers for
\* dpd_data.csv, in hundredths for tl_features.csv) and dates
ParserCells ==
    { NullCell, EmptyCell, JunkCell, NanCell, InfCell }
    \cup { Num(n) : n \in {-250, -199, -100, -1, 0, 1, 45, 99, 100, 199, 250} }
    \cup { DateCell(m) : m \in 0..5 }

InitParsers ==
    /\ bureau_file = << >> /\ tl_file = << >>
    /\ bureau_df = << >> /\ tl_features_df = << >>
    /\ today = TodayMonth
    /\ pc = "call"
    /\ customer_id = 0
    /\ feature_vectors = << >>
    /\ executive_inputs = EmptySummary
    /\ tradeline_features = NoTF
    /\ key_findings = << >>
    /\ monthly_exposure = NoExposure
    /\ call_arg \in ParserCells
    /\ call_ret = NoneVal
    /\ bureau_reads = 0
    /\ tl_reads = 0

SafeFloat ==
    /\ pc = "call"
    /\ call_ret' = safe_float(call_arg, 0)
    /\ pc' = "_safe_float"
    /\ UNCHANGED <<pipeline_vars, call_arg>>

SafeInt ==
    /\ pc = "call"
    /\ call_ret' = safe_int(call_arg, 0)
    /\ pc' = "_safe_int"
    /\ UNCHANGED <<pipeline_vars, call_arg>>

ParseDate ==
    /\ pc = "call"
    /\ call_ret' = parse_date(call_arg)
    /\ pc' = "_parse_date"
    /\ UNCHANGED <<pipeline_vars, call_arg>>

SafeOptionalFloat ==
    /\ pc = "call"
    /\ call_ret' = safe_optional_float(call_arg)
    /\ pc' = "_safe_optional_float"
    /\ UNCHANGED <<pipeline_vars, call_arg>>

SafeOptionalInt ==
    /\ pc = "call"
    /\ call_ret' = safe_optional_int(call_arg)
    /\ pc' = "_safe_optional_int"
    /\ UNCHANGED <<pipeline_vars, call_arg>>

NextParsers ==
    SafeFloat \/ SafeInt \/ ParseDate \/ SafeOptionalFloat \/ SafeOptionalInt

SpecParsers == InitParsers /\ [][NextParsers]_vars

\* ------------------------------------------------------------------------
\* Properties
\* ------------------------------------------------------------------------
Extracted == pc \in {"extracted", "aggregated", "tl_extracted", "done", "reported"}
Aggregated == pc \in {"aggregated", "tl_extracted", "done", "reported"}
Done == pc \in {"done", "reported"}

\* the customer's rows of the loaded table, and the rows of a vector's group
CustRows == customer_rows_of(bureau_df[1], customer_id)
GroupOf(v) == group_rows(CustRows, v.loan_type)
Vec(i) == feature_vectors[i]
VecIdx == 1..Len(feature_vectors)
FindIdx == 1..Len(key_findings)

\* C1: every vector returned by extract_bureau_features has
\* live_count + closed_count = loan_count, on_us_count + off_us_count =
\* loan_count, loan_count >= 1 and no negative count.
C1_CountsPartition ==
    Extracted =>
        \A i \in VecIdx :
            /\ Vec(i).live_count + Vec(i).closed_count = Vec(i).loan_count
            /\ Vec(i).on_us_count + Vec(i).off_us_count = Vec(i).loan_count
            /\ Vec(i).loan_count >= 1
            /\ Vec(i).live_count >= 0 /\ Vec(i).closed_count >= 0
            /\ Vec(i).on_us_count >= 0 /\ Vec(i).off_us_count >= 0

\* a group with a closed, a written-off, an on-us and an off-us tradeline
C1_Witness ==
    /\ Extracted
    /\ \E i \in VecIdx :
        /\ Vec(i).closed_count >= 1 /\ Vec(i).live_count >= 1
        /\ Vec(i).on_us_count >= 1 /\ Vec(i).off_us_count >= 1
        /\ \E k \in 1..Len(GroupOf(Vec(i))) :
              GroupOf(Vec(i))[k].loan_status.s = "Written-Off"

\* the concern finding(s) that report DPD despite 0% missed payments
IsLateDespiteNoMiss(f) ==
    /\ f.severity = "concern"
    /\ f.finding \in
         { "No formal missed payments but DPD detected",
           "No formal missed payments in last 18 months, but DPD delays detected on some products" }

IsNoMissedPositive(f) ==
    f.severity = "positive" /\ f.finding = "No missed payments in last 18 months"

TFPresent == tradeline_features # NoTF

\* a DPD window of the tradeline features is present and > 0
TFWindowDpd ==
    \/ Present(tradeline_features.max_dpd_6m_cc) /\ tradeline_features.max_dpd_6m_cc > 0
    \/ Present(tradeline_features.max_dpd_6m_pl) /\ tradeline_features.max_dpd_6m_pl > 0
    \/ Present(tradeline_features.max_dpd_9m_cc) /\ tradeline_features.max_dpd_9m_cc > 0

PortfolioDpd ==
    executive_inputs.has_delinquency /\ Present(executive_inputs.max_dpd)
        /\ executive_inputs.max_dpd > 0

Contradiction ==
    /\ TFPresent
    /\ Present(tradeline_features.pct_missed_payments_18m)
    /\ tradeline_features.pct_missed_payments_18m = 0
    /\ (TFWindowDpd \/ PortfolioDpd)

\* C2: with 0% missed payments and DPD at tradeline or portfolio level, the
\* findings contain the concern "no formal missed payments but DPD detected"
\* finding and do not contain the positive "No missed payments in last 18
\* months" finding.
C2_ContradictionOverrides ==
    (Done /\ Contradiction) =>
        /\ \E i \in FindIdx : IsLateDespiteNoMiss(key_findings[i])
        /\ \A i \in FindIdx : ~IsNoMissedPositive(key_findings[i])

\* C3: the returned list is sorted by severity rank and, rank by rank, lists
\* the findings of the four passes in their generation order (a stable
\* permutation of the concatenation of the passes).
Generated == generated_findings(executive_inputs, feature_vectors, tradeline_features)
OfRank(fs, r) == SelectSeq(fs, LAMBDA f : severity_rank(f.severity) = r)

C3_StableSeveritySort ==
    Done =>
        /\ Len(key_findings) = Len(Generated)
        /\ \A i, j \in FindIdx :
              i < j => severity_rank(key_findings[i].severity)
                         <= severity_rank(key_findings[j].severity)
        /\ \A r \in 0..4 : OfRank(key_findings, r) = OfRank(Generated, r)
        /\ \A i, j \in FindIdx :
              ~(i < j /\ key_findings[i].severity = "moderate_risk"
                      /\ key_findings[j].severity = "high_risk")

\* the sort moved a high_risk finding ahead of an earlier-generated one and
\* kept two different findings of one severity in generation order
C3_Witness ==
    /\ Done
    /\ key_findings # Generated
    /\ \E i, j \in 1..Len(Generated) :
          /\ i < j
          /\ Generated[i].severity = "moderate_risk"
          /\ Generated[j].severity = "high_risk"
    /\ \E r \in 0..4 : Len(OfRank(Generated, r)) >= 2
                        /\ OfRank(Generated, r)[1] # OfRank(Generated, r)[2]

\* limit and outstanding cells of a tradeline, as parsed
LimitOf(tl) == safe_float(tl.creditlimit, 0)
OutstandingOf(tl) == safe_float(tl.out_standing_balance, 0)
IsStatus(tl, st) == Strip(tl.loan_status).s = st

\* C4: utilization_ratio is None for every non-credit-card vector, and None
\* (not 0) for a credit-card vector whose contributing tradelines have
\* a summed credit limit <= 0.
C4_UtilizationNullity ==
    Extracted =>
        \A i \in VecIdx :
            LET g == GroupOf(Vec(i))
                contributing == SelectSeq(g, LAMBDA tl : IsStatus(tl, "Live") /\ LimitOf(tl) > 0)
                limit == SumSeq([k \in 1..Len(contributing) |-> LimitOf(contributing[k])])
            IN  /\ Vec(i).loan_type # "CC" => Vec(i).utilization_ratio = NoneVal
                /\ (Vec(i).loan_type = "CC" /\ limit <= 0)
                      => Vec(i).utilization_ratio = NoneVal

\* a credit-card group of live cards none of which has a positive limit
C4_Witness ==
    /\ Extracted
    /\ \E i \in VecIdx :
          /\ Vec(i).loan_type = "CC"
          /\ Vec(i).utilization_ratio = NoneVal
          /\ \A k \in 1..Len(GroupOf(Vec(i))) :
                /\ IsStatus(GroupOf(Vec(i))[k], "Live")
                /\ GroupOf(Vec(i))[k].creditlimit.kind = "num"
                /\ LimitOf(GroupOf(Vec(i))[k]) <= 0

\* C5: for a credit-card group, utilization_ratio is outstanding / limit
\* summed over the tradelines counted in live_count (status not exactly
\* "Closed", written-off included) that have a credit limit > 0.
C5_UtilizationOverLiveCount ==
    Extracted =>
        \A i \in VecIdx :
            Vec(i).loan_type = "CC" =>
                LET g == GroupOf(Vec(i))
                    live == SelectSeq(g, LAMBDA tl : ~IsStatus(tl, "Closed") /\ LimitOf(tl) > 0)
                    limit == SumSeq([k \in 1..Len(live) |-> LimitOf(live[k])])
                    out == SumSeq([k \in 1..Len(live) |-> OutstandingOf(live[k])])
                IN  Vec(i).utilization_ratio =
                        IF live = << >> THEN NoneVal
                        ELSE RoundHalfEven(out * 10000, limit)

\* C6: max_dpd is the maximum of the group's max_dpd column (None when no
\* value is > 0), max_dpd_months_ago is the months_since_max_dpd cell of the
\* first tradeline attaining it (None when that cell is absent), and
\* delinquency_flag is true exactly when max_dpd is not None and > 0.
DpdOf(tl) == safe_int(tl.max_dpd, 0)

FirstAtMax(g) ==
    CHOOSE k \in 1..Len(g) :
        /\ \A j \in 1..Len(g) : DpdOf(g[j]) <= DpdOf(g[k])
        /\ \A j \in 1..(k - 1) : DpdOf(g[j]) < DpdOf(g[k])

UnsecuredVecs == SelectSeq(feature_vectors, LAMBDA v : ~v.secured)

C7_AggregateSums ==
    Aggregated =>
        /\ executive_inputs.total_tradelines
              = SumSeq([k \in VecIdx |-> Vec(k).loan_count])
        /\ executive_inputs.live_tradelines
              = SumSeq([k \in VecIdx |-> Vec(k).live_count])
        /\ executive_inputs.closed_tradelines
              = SumSeq([k \in VecIdx |-> Vec(k).closed_count])
        /\ executive_inputs.total_sanctioned
              = SumSeq([k \in VecIdx |-> Vec(k).total_sanctioned_amount])
        /\ executive_inputs.total_outstanding
              = SumSeq([k \in VecIdx |-> Vec(k).total_outstanding_amount])
        /\ executive_inputs.unsecured_sanctioned
              = SumSeq([k \in 1..Len(UnsecuredVecs) |->
                           UnsecuredVecs[k].total_sanctioned_amount])
        /\ executive_inputs.unsecured_outstanding
              = SumSeq([k \in 1..Len(UnsecuredVecs) |->
                           UnsecuredVecs[k].total_outstanding_amount])
        /\ executive_inputs.has_delinquency
              <=> (\E i \in VecIdx : Vec(i).delinquency_flag)
        /\ (\A i \in VecIdx : Vec(i).live_count + Vec(i).closed_count = Vec(i).loan_count)
              => executive_inputs.live_tradelines + executive_inputs.closed_tradelines
                    = executive_inputs.total_tradelines

\* a secured and an unsecured vector, both with amounts, one delinquent
C7_Witness ==
    /\ Aggregated
    /\ \E i, j \in VecIdx :
          /\ Vec(i).secured /\ Vec(i).total_sanctioned_amount > 0
          /\ ~Vec(j).secured /\ Vec(j).total_sanctioned_amount > 0
          /\ Vec(i).delinquency_flag # Vec(j).delinquency_flag
    /\ executive_inputs.unsecured_sanctioned < executive_inputs.total_sanctioned

\* C8: the portfolio max_dpd is the maximum non-null max_dpd of the vectors
\* (None if all are None); max_dpd_months_ago and max_dpd_loan_type are those
\* of the first vector, in mapping order, that attains it.
WithDpd == { i \in VecIdx : Vec(i).max_dpd # NoneVal }

FirstVecAtMax ==
    CHOOSE i \in WithDpd :
        /\ \A j \in WithDpd : Vec(j).max_dpd <= Vec(i).max_dpd
        /\ \A j \in WithDpd : j < i => Vec(j).max_dpd < Vec(i).max_dpd

C8_PortfolioMaxDpdProvenance ==
    Aggregated =>
        IF WithDpd = {}
        THEN /\ executive_inputs.max_dpd = NoneVal
             /\ executive_inputs.max_dpd_months_ago = NoneVal
             /\ executive_inputs.max_dpd_loan_type = ""
        ELSE /\ executive_inputs.max_dpd = Vec(FirstVecAtMax).max_dpd
             /\ executive_inputs.max_dpd_months_ago = Vec(FirstVecAtMax).max_dpd_months_ago
             /\ executive_inputs.max_dpd_loan_type
                   = LOAN_TYPE_DISPLAY_NAMES[Vec(FirstVecAtMax).loan_type]

\* two vectors tie on the maximum with different recency; the first one wins
C8_Witness ==
    /\ Aggregated
    /\ Len(feature_vectors) >= 2
    /\ Vec(1).max_dpd # NoneVal
    /\ Vec(1).max_dpd = Vec(2).max_dpd
    /\ Vec(1).max_dpd_months_ago # Vec(2).max_dpd_months_ago
    /\ executive_inputs.max_dpd_months_ago = Vec(1).max_dpd_months_ago
    /\ executive_inputs.max_dpd_loan_type = LOAN_TYPE_DISPLAY_NAMES[Vec(1).loan_type]

\* the Delinquency finding of the portfolio pass (the per-loan-type ones
\* start with the loan type's name)
IsPortfolioDelinquency(f) == f.category = "Delinquency" /\ f.subject = ""

\* C9: the portfolio pass emits exactly one Delinquency finding; it is
\* high_risk if max DPD > 90, moderate_risk if 30 < max DPD <= 90, concern
\* if 0 < max DPD <= 30, and positive otherwise.
C9_PortfolioDelinquencyBands ==
    Done =>
        LET d == executive_inputs.max_dpd
            hits == SelectSeq(key_findings, IsPortfolioDelinquency)
        IN  /\ Len(hits) = 1
            /\ hits[1].severity =
                  IF d # NoneVal /\ d > 90 THEN "high_risk"
                  ELSE IF d # NoneVal /\ d > 30 THEN "moderate_risk"
                  ELSE IF d # NoneVal /\ d > 0 THEN "concern"
                  ELSE "positive"

\* a portfolio whose max DPD is exactly 90 gets the moderate_risk finding
C9_Witness ==
    /\ Done
    /\ executive_inputs.max_dpd = 90
    /\ \E i \in FindIdx : /\ IsPortfolioDelinquency(key_findings[i])
                          /\ key_findings[i].severity = "moderate_risk"

\* C10: when the portfolio max DPD d is in (30, 90] and its months-ago value
\* m is known, a moderate_risk Delinquency finding carries both "d days" and
\* "m months ago".
C10_DelinquencyFindingCarriesRecency ==
    (/\ Done
     /\ executive_inputs.max_dpd # NoneVal
     /\ executive_inputs.max_dpd > 30 /\ executive_inputs.max_dpd <= 90
     /\ executive_inputs.max_dpd_months_ago # NoneVal) =>
        \E i \in FindIdx :
            /\ key_findings[i].category = "Delinquency"
            /\ key_findings[i].severity = "moderate_risk"
            /\ <<"days", executive_inputs.max_dpd>> \in key_findings[i].nums
            /\ <<"months ago", executive_inputs.max_dpd_months_ago>> \in key_findings[i].nums

\* the Utilization findings of the per-loan-type pass
IsCardUtilization(f) ==
    f.category = "Utilization" /\ f.finding = "Credit card utilization at"

CardUtilizationFindings == SelectSeq(key_findings, IsCardUtilization)

CardVectors == SelectSeq(feature_vectors, LAMBDA v : v.loan_type = "CC")

\* C11: for a credit-card vector with utilization u (a percentage) the
\* per-loan-type pass emits at most one Utilization finding: high_risk if
\* u > 75, moderate_risk if 50 < u <= 75, positive if u <= 30, and none if
\* 30 < u <= 50 or if the ratio is null (or there is no credit-card vector).
C11_CardUtilizationBands ==
    Done =>
        LET u == IF CardVectors = << >> THEN NoneVal
                 ELSE CardVectors[1].utilization_ratio
            expected ==
                IF u = NoneVal THEN << >>
                ELSE IF u > 75 * 100 THEN <<"high_risk">>
                ELSE IF u > 50 * 100 THEN <<"moderate_risk">>
                ELSE IF u > 30 * 100 THEN << >>
                ELSE <<"positive">>
        IN  /\ Len(CardVectors) <= 1
            /\ [i \in 1..Len(CardUtilizationFindings) |->
                   CardUtilizationFindings[i].severity] = expected

\* a credit card at exactly 75 % gives the moderate_risk finding
C11_Witness ==
    /\ Done
    /\ CardVectors # << >>
    /\ CardVectors[1].utilization_ratio = 7500
    /\ Len(CardUtilizationFindings) = 1
    /\ CardUtilizationFindings[1].severity = "moderate_risk"

\* the findings of the per-loan-type pass about the vector v, by category
TypeFindings(v, category) ==
    SelectSeq(key_findings,
              LAMBDA f : /\ f.category = category
                         /\ f.subject = get_loan_type_display_name(v.loan_type))

Severities(fs) == [i \in 1..Len(fs) |-> fs[i].severity]

\* number of findings of the other three passes
OtherPassCount ==
    Len(portfolio_findings(executive_inputs, feature_vectors))
    + (IF tradeline_features = NoTF THEN 0
       ELSE Len(tradeline_findings(tradeline_features, feature_vectors))
            + Len(composite_findings(executive_inputs, tradeline_features,
                                     feature_vectors)))

\* C12: for every vector the per-loan-type pass emits a Delinquency finding
\* iff max_dpd > 30 (high_risk if > 90, else moderate_risk), a concern
\* Outstanding finding iff overdue_amount > 0 and a high_risk Adverse Events
\* finding iff forced_event_flags is non-empty; besides these and the
\* credit-card Utilization finding it emits nothing.
C12_LoanTypeFindings ==
    Done =>
        /\ \A i \in VecIdx :
              /\ Severities(TypeFindings(Vec(i), "Delinquency")) =
                    (IF Vec(i).max_dpd = NoneVal \/ Vec(i).max_dpd <= 30 THEN << >>
                     ELSE IF Vec(i).max_dpd > 90 THEN <<"high_risk">>
                     ELSE <<"moderate_risk">>)
              /\ Severities(TypeFindings(Vec(i), "Outstanding")) =
                    (IF Vec(i).overdue_amount > 0 THEN <<"concern">> ELSE << >>)
              /\ Severities(TypeFindings(Vec(i), "Adverse Events")) =
                    (IF Vec(i).forced_event_flags # {} THEN <<"high_risk">> ELSE << >>)
        /\ Len(key_findings) - OtherPassCount - Len(CardUtilizationFindings) =
              SumSeq([i \in VecIdx |->
                        Len(TypeFindings(Vec(i), "Delinquency"))
                        + Len(TypeFindings(Vec(i), "Outstanding"))
                        + Len(TypeFindings(Vec(i), "Adverse Events"))])

\* a personal-loan vector with DPD 90 (moderate_risk) next to a home-loan
\* vector with DPD 91 (high_risk)
C12_Witness ==
    /\ Done
    /\ \E i, j \in VecIdx :
          /\ Vec(i).loan_type = "PL" /\ Vec(i).max_dpd = 90
          /\ Severities(TypeFindings(Vec(i), "Delinquency")) = <<"moderate_risk">>
          /\ Vec(j).loan_type = "HL" /\ Vec(j).max_dpd = 91
          /\ Severities(TypeFindings(Vec(j), "Delinquency")) = <<"high_risk">>

\* the findings of a behavioural signal, by the sentence of its f-string
SignalFindings(sentence) ==
    SelectSeq(key_findings, LAMBDA f : f.finding = sentence)

TF == tradeline_features
HasTF == tradeline_features # NoTF

\* C13: each single-feature behavioural signal gives at most one finding,
\* with the severity of the threshold table and none in the gaps: new PL
\* trades 6M (>= 3 high_risk, = 2 moderate_risk), months since last PL trade
\* (< 2 concern), good-closure ratio (>= 80 % positive, < 50 % high_risk,
\* 50 % .. < 70 % concern), PL balance remaining (> 80 % high_risk, <= 30 %
\* positive), unsecured enquiries 12M (> 15 high_risk, 11 .. 15
\* moderate_risk, <= 3 positive), trade-to-enquiry ratio (< 20 % concern,
\* > 50 % positive), PL/BL interpurchase time (< 1 high_risk, 1 .. < 2
\* concern, >= 6 positive).
C13_BehaviouralThresholds ==
    (Done /\ HasTF) =>
        /\ Severities(SignalFindings("new personal loan trades opened in last 6 months")) =
              (LET x == TF.new_trades_6m_pl
               IN  IF x = NoneVal THEN << >>
                   ELSE IF x >= 3 THEN <<"high_risk">>
                   ELSE IF x = 2 THEN <<"moderate_risk">>
                   ELSE << >>)
        /\ Severities(SignalFindings("Last PL trade opened")) =
              (LET x == TF.months_since_last_trade_pl
               IN  IF x # NoneVal /\ FLt(x, 200) THEN <<"concern">> ELSE << >>)
        /\ Severities(SignalFindings("Good closure ratio for PL loans")) =
              (LET x == TF.ratio_good_closed_pl
               IN  IF x = NoneVal \/ IsNaN(x) THEN << >>
                   ELSE IF x >= 80 THEN <<"positive">>
                   ELSE IF x < 50 THEN <<"high_risk">>
                   ELSE IF x < 70 THEN <<"concern">>
                   ELSE << >>)
        /\ Severities(SignalFindings("PL balance remaining")) =
              (LET x == TF.pl_balance_remaining_pct
               IN  IF x = NoneVal \/ IsNaN(x) THEN << >>
                   ELSE IF x > 8000 THEN <<"high_risk">>
                   ELSE IF x <= 3000 THEN <<"positive">>
                   ELSE << >>)
        /\ Severities(SignalFindings("unsecured enquiries in last 12 months")) =
              (LET x == TF.unsecured_enquiries_12m
               IN  IF x = NoneVal THEN << >>
                   ELSE IF x > 15 THEN <<"high_risk">>
                   ELSE IF x \in 11..15 THEN <<"moderate_risk">>
                   ELSE IF x <= 3 THEN <<"positive">>
                   ELSE << >>)
        /\ Severities(SignalFindings("Trade-to-enquiry ratio (unsecured, 24M)")) =
              (LET x == TF.trade_to_enquiry_ratio_uns_24m
               IN  IF x = NoneVal \/ IsNaN(x) THEN << >>
                   ELSE IF x < 2000 THEN <<"concern">>
                   ELSE IF x > 5000 THEN <<"positive">>
                   ELSE << >>)
        /\ Severities(SignalFindings("Avg time between PL/BL acquisitions (12M)")) =
              (LET x == TF.interpurchase_time_12m_plbl
               IN  IF x = NoneVal \/ IsNaN(x) THEN << >>
                   ELSE IF x < 100 THEN <<"high_risk">>
                   ELSE IF x < 200 THEN <<"concern">>
                   ELSE IF x >= 600 THEN <<"positive">>
                   ELSE << >>)

\* a good-closure ratio of exactly 0.80 gives the positive finding
C13_Witness ==
    /\ Done /\ HasTF
    /\ TF.ratio_good_closed_pl = 80
    /\ Severities(SignalFindings("Good closure ratio for PL loans")) = <<"positive">>

\* the features of the tradeline record that are present
PresentFeatures == { f \in TLFields : TF[f] # NoneVal }

\* severities of the composite findings with the given sentence
Composite(sentence) ==
    Severities(SelectSeq(key_findings,
                         LAMBDA f : f.category = "Composite Signal"
                                    /\ f.finding = sentence))

Has(f) == TF[f] # NoneVal /\ ~IsNaN(TF[f])

\* C14: the composite pass emits each cross-feature finding exactly when
\* both of its features are present and jointly satisfy its condition:
\* enquiries > 10 and new PL trades >= 2 (high_risk); interpurchase time < 2
\* and new PL trades >= 2 (high_risk); CC utilization > 50 % and PL balance
\* remaining > 50 % (moderate_risk); enquiries > 10 and trade-to-enquiry
\* ratio < 30 % (moderate_risk); the three DPD windows = 0, missed payments
\* = 0 and good-closure ratio >= 80 % (positive).  No composite finding
\* fires from a single feature.
C14_CompositeFindings ==
    (Done /\ HasTF) =>
        /\ Composite("High enquiry volume combined with new PL trades in 6M") =
              (IF /\ Has("unsecured_enquiries_12m") /\ Has("new_trades_6m_pl")
                  /\ TF.unsecured_enquiries_12m > 10 /\ TF.new_trades_6m_pl >= 2
               THEN <<"high_risk">> ELSE << >>)
        /\ Composite("Avg months between PL/BL with new trades in 6M") =
              (IF /\ Has("interpurchase_time_12m_plbl") /\ Has("new_trades_6m_pl")
                  /\ TF.interpurchase_time_12m_plbl < 200 /\ TF.new_trades_6m_pl >= 2
               THEN <<"high_risk">> ELSE << >>)
        /\ Composite("CC utilization and PL balance remaining") =
              (IF /\ Has("cc_balance_utilization_pct") /\ Has("pl_balance_remaining_pct")
                  /\ TF.cc_balance_utilization_pct > 5000
                  /\ TF.pl_balance_remaining_pct > 5000
               THEN <<"moderate_risk">> ELSE << >>)
        /\ Composite("High enquiries but low trade-to-enquiry conversion") =
              (IF /\ Has("unsecured_enquiries_12m") /\ Has("trade_to_enquiry_ratio_uns_24m")
                  /\ TF.unsecured_enquiries_12m > 10
                  /\ TF.trade_to_enquiry_ratio_uns_24m < 3000
               THEN <<"moderate_risk">> ELSE << >>)
        /\ Composite("Zero DPD, no missed payments, and good PL closure ratio") =
              (IF /\ \A f \in {"max_dpd_6m_cc", "max_dpd_6m_pl", "max_dpd_9m_cc",
                               "pct_missed_payments_18m"} : Has(f) /\ TF[f] = 0
                  /\ Has("ratio_good_closed_pl") /\ TF.ratio_good_closed_pl >= 80
               THEN <<"positive">> ELSE << >>)
        /\ (\E i \in FindIdx : key_findings[i].category = "Composite Signal")
              => \/ Cardinality(PresentFeatures) >= 2
                 \/ /\ Cardinality(PresentFeatures) = 1
                    /\ executive_inputs.max_dpd # NoneVal

\* enquiries 11 and conversion 29.99 % give the moderate_risk composite while
\* the number of new trades is absent
C14_Witness ==
    /\ Done /\ HasTF
    /\ TF.unsecured_enquiries_12m = 11
    /\ TF.trade_to_enquiry_ratio_uns_24m = Dec(29, 99)
    /\ TF.new_trades_6m_pl = NoneVal
    /\ Composite("High enquiries but low trade-to-enquiry conversion") = <<"moderate_risk">>
    /\ Composite("High enquiry volume combined with new PL trades in 6M") = << >>

\* the features whose value the rule behind a finding of the tradeline or
\* composite pass compares with a threshold that must hold
RuleFeatures(f) ==
    CASE f.finding = "new personal loan trades opened in last 6 months" ->
             {"new_trades_6m_pl"}
      [] f.finding = "Last PL trade opened" -> {"months_since_last_trade_pl"}
      [] f.finding = "Max DPD for" /\ f.subject = "Credit Card (6M)" -> {"max_dpd_6m_cc"}
      [] f.finding = "Max DPD for" /\ f.subject = "Personal Loan (6M)" -> {"max_dpd_6m_pl"}
      [] f.finding = "Max DPD for" /\ f.subject = "Credit Card (9M)" -> {"max_dpd_9m_cc"}
      [] f.finding = "Zero DPD across all products in recent 6-9 month windows" ->
             {"max_dpd_6m_cc", "max_dpd_6m_pl", "max_dpd_9m_cc"}
      [] f.category = "Payment Behavior"
         /\ f.finding # "Good closure ratio for PL loans" -> {"pct_missed_payments_18m"}
      [] f.finding = "Good closure ratio for PL loans" -> {"ratio_good_closed_pl"}
      [] f.finding = "PL balance remaining" -> {"pl_balance_remaining_pct"}
      [] f.finding = "unsecured enquiries in last 12 months" -> {"unsecured_enquiries_12m"}
      [] f.finding = "Trade-to-enquiry ratio (unsecured, 24M)" ->
             {"trade_to_enquiry_ratio_uns_24m"}
      [] f.finding = "Avg time between PL/BL acquisitions (12M)" ->
             {"interpurchase_time_12m_plbl"}
      [] f.finding = "High enquiry volume combined with new PL trades in 6M" ->
             {"unsecured_enquiries_12m", "new_trades_6m_pl"}
      [] f.finding = "Avg months between PL/BL with new trades in 6M" ->
             {"interpurchase_time_12m_plbl", "new_trades_6m_pl"}
      [] f.finding = "CC utilization and PL balance remaining" ->
             {"cc_balance_utilization_pct", "pl_balance_remaining_pct"}
      [] f.finding = "High enquiries but low trade-to-enquiry conversion" ->
             {"unsecured_enquiries_12m", "trade_to_enquiry_ratio_uns_24m"}
      [] f.finding = "Zero DPD, no missed payments, and good PL closure ratio" ->
             {"max_dpd_6m_cc", "max_dpd_6m_pl", "max_dpd_9m_cc",
              "pct_missed_payments_18m", "ratio_good_closed_pl"}
      [] f.finding = "No formal missed payments but DPD detected" ->
             {"pct_missed_payments_18m"}
      [] OTHER -> {}

\* categories of the tradeline and composite passes
BehaviouralCategories ==
    {"Loan Activity", "DPD & Delinquency", "Payment Behavior", "Enquiry Behavior",
     "Loan Velocity", "Composite Signal"}

IsBehavioural(f) ==
    \/ f.category \in BehaviouralCategories
    \/ f.category = "Utilization" /\ f.finding = "PL balance remaining"

\* C15: an absent feature never satisfies a threshold: every finding of the
\* tradeline and composite passes has the features its rule tests present,
\* and with a TradelineFeatures record whose fields are all absent
\* extract_key_findings returns the list it returns without tradeline
\* features.
C15_AbsentNeverSatisfies ==
    (Done /\ HasTF) =>
        /\ \A i \in FindIdx :
              IsBehavioural(key_findings[i]) =>
                  /\ RuleFeatures(key_findings[i]) # {}
                  /\ RuleFeatures(key_findings[i]) \subseteq PresentFeatures
        /\ PresentFeatures = {} =>
              key_findings = extract_key_findings_of(executive_inputs, feature_vectors, NoTF)

\* a record with every field absent for a customer with a delinquent loan
C15_Witness ==
    /\ Done /\ HasTF
    /\ PresentFeatures = {}
    /\ executive_inputs.has_delinquency
    /\ key_findings # << >>

TLExtracted == pc \in {"tl_extracted", "done", "reported"}

\* C16: in every record returned by extract_tradeline_features, max_dpd_6m_cc
\* present implies max_dpd_9m_cc present and >= it, and pct_0plus_24m_all >=
\* pct_0plus_24m_pl whenever both are present.
C16_RepairedWindowsConsistent ==
    (TLExtracted /\ HasTF) =>
        /\ TF.max_dpd_6m_cc # NoneVal =>
              /\ TF.max_dpd_9m_cc # NoneVal
              /\ TF.max_dpd_9m_cc >= TF.max_dpd_6m_cc
        /\ (TF.pct_0plus_24m_all # NoneVal /\ TF.pct_0plus_24m_pl # NoneVal) =>
              FGe(TF.pct_0plus_24m_all, TF.pct_0plus_24m_pl)

\* the row of tl_features.csv the record was built from
MatchingRows ==
    SelectSeq(tl_features_df[1], LAMBDA row : tl_crn_matches(row, customer_id))

Parsed == parse_tl_row(MatchingRows[1])

RepairedFields == {"months_since_last_0p_uns", "max_dpd_9m_cc", "pct_0plus_24m_all"}

\* C17: the record returned by extract_tradeline_features is the parsed row
\* except for three repairs: months_since_last_0p_uns takes the PL value
\* only when absent with the PL value present; max_dpd_9m_cc becomes
\* max_dpd_6m_cc only when 6m is present and 9m is absent or smaller;
\* pct_0plus_24m_all is raised to pct_0plus_24m_pl only when both are present
\* and all < PL.  Everything else keeps its parsed value, and repairing a
\* second time changes nothing.
C17_OnlyThreeRepairs ==
    (TLExtracted /\ HasTF) =>
        LET p == Parsed
            r == TF
        IN  /\ \A f \in TLFields \ RepairedFields : r[f] = p[f]
            /\ r.months_since_last_0p_uns =
                  (IF p.months_since_last_0p_uns = NoneVal
                      /\ p.months_since_last_0p_pl # NoneVal
                   THEN p.months_since_last_0p_pl
                   ELSE p.months_since_last_0p_uns)
            /\ r.max_dpd_9m_cc =
                  (IF p.max_dpd_6m_cc # NoneVal
                      /\ (p.max_dpd_9m_cc = NoneVal
                          \/ p.max_dpd_9m_cc < p.max_dpd_6m_cc)
                   THEN p.max_dpd_6m_cc
                   ELSE p.max_dpd_9m_cc)
            /\ r.pct_0plus_24m_all =
                  (IF p.pct_0plus_24m_all # NoneVal /\ p.pct_0plus_24m_pl # NoneVal
                      /\ FLt(p.pct_0plus_24m_all, p.pct_0plus_24m_pl)
                   THEN p.pct_0plus_24m_pl
                   ELSE p.pct_0plus_24m_all)
            /\ repair_tl(r) = r

\* a parsed 0 in months_since_last_0p_uns stays 0 next to a PL value of 5
C17_Witness ==
    /\ TLExtracted /\ HasTF
    /\ Parsed.months_since_last_0p_uns = 0
    /\ Parsed.months_since_last_0p_pl = Dec(5, 0)
    /\ TF.months_since_last_0p_uns = 0

\* the customer has no row in dpd_data.csv
NoBureauRows == Extracted /\ CustRows = << >>

C19_NormalizeTotal ==
    /\ pc = "normalize_loan_type" =>
          /\ call_ret \in LoanType
          /\ \A e \in LOAN_TYPE_NORMALIZATION_MAP :
                call_arg = Txt(e[1]) => call_ret = e[2]
          /\ (\A k \in LabelKeys : call_arg # Txt(k)) => call_ret = "OTHER"
    /\ pc = "is_secured" =>
          call_ret = (call_arg \in { Txt(l) : l \in SECURED_LOAN_TYPES })

\* "Home Loan" with surrounding whitespace is OTHER
C19_Witness ==
    /\ pc = "normalize_loan_type"
    /\ call_arg = Padded("Home Loan")
    /\ call_ret = "OTHER"

Reported == pc = "reported"

\* the amounts of loan type lt in the returned series, 0 when it is dropped
SeriesAmount(lt, k) ==
    LET hit == SelectSeq(monthly_exposure.series, LAMBDA e : e[1] = lt)
    IN  IF hit = << >> THEN 0 ELSE hit[1][2][k]

\* opened on or before the month's last day, and still open (status not
\* Closed) or closed on or after the month's first day
ContributesTo(tl, month) ==
    /\ parse_date(tl.date_opened) # NoneVal
    /\ parse_date(tl.date_opened) <= month
    /\ \/ ~IsStatus(tl, "Closed")
       \/ /\ parse_date(tl.date_closed) # NoneVal
          /\ parse_date(tl.date_closed) >= month

\* C20: in compute_monthly_exposure a tradeline contributes its sanction
\* amount to month M of its loan type's series iff it was opened on or
\* before M's last day and is either still open (status not Closed) or was
\* closed on or after M's first day; a tradeline without a valid open date
\* contributes to no month.
C20_ExposureActiveMonths ==
    Reported =>
        \A lt \in { canonical_of(CustRows[i]) : i \in 1..Len(CustRows) } :
            \A k \in 1..n_months_default :
                LET month == months_window(today, n_months_default)[k]
                    rows == SelectSeq(group_rows(CustRows, lt),
                                      LAMBDA tl : ContributesTo(tl, month))
                IN  SeriesAmount(lt, k) =
                        SumSeq([i \in 1..Len(rows) |->
                                  safe_float(rows[i].sanction_amount, 0)])

\* what a parser returns for an input that is no usable number or date
ParserDefault ==
    IF pc \in {"_safe_float", "_safe_int"} THEN 0 ELSE NoneVal

\* the literal of a cell of tl_features.csv truncated towards zero
Truncated(v) ==
    CHOOSE t \in -3..3 :
        IF v >= 0 THEN t >= 0 /\ t * 100 <= v /\ v < (t + 1) * 100
        ELSE t <= 0 /\ (-t) * 100 <= -v /\ -v < (1 - t) * 100

\* what the float parsers may return for the literals of NaN and infinity:
\* the default, or the float the literal denotes
NonFinite ==
    IF call_arg.kind = "nan" THEN {ParserDefault, NaNVal}
    ELSE IF call_arg.kind = "inf" THEN {ParserDefault, InfVal}
    ELSE {ParserDefault}

\* C23: the field parsers never raise; for NULL, the empty cell and text they
\* return the default (0 for _safe_float and _safe_int, None for the
\* others), for a usable number or date the parsed value, and for the
\* literals of infinity and NaN the default or the float they denote.
C23_ParsersNeverRaise ==
    pc # "call" =>
        /\ call_ret # OverflowError
        /\ (pc = "_parse_date") =>
              call_ret = (IF call_arg.kind = "date" THEN call_arg.v ELSE NoneVal)
        /\ (pc \in {"_safe_float", "_safe_optional_float"}) =>
              IF call_arg.kind = "num" THEN call_ret = call_arg.v
              ELSE call_ret \in NonFinite
        /\ (pc = "_safe_int") =>
              call_ret = (IF call_arg.kind = "num" THEN call_arg.v ELSE ParserDefault)
        /\ (pc = "_safe_optional_int") =>
              call_ret = (IF call_arg.kind = "num" THEN Truncated(call_arg.v)
                          ELSE ParserDefault)

\* build_bureau_report left by an exception instead of returning a report
Raised == pc = "raised"

TLRaised == extract_tradeline_features_raises(tl_features_df[1], customer_id)

\* C24: build_bureau_report returns a report whenever one of its stages
\* raises: no exception leaves it, the field of the failed stage keeps its
\* empty default and the other fields are what they are without the failure
\* (the key findings are those of the vectors and the summary without
\* tradeline features when extract_tradeline_features raised).
C24_ReportAlwaysReturned ==
    /\ ~Raised
    /\ (TLExtracted /\ TLRaised) =>
          /\ tradeline_features = NoTF
          /\ feature_vectors = extract_bureau_features_of(bureau_df[1], customer_id, today)
          /\ executive_inputs = aggregate_bureau_features(feature_vectors)
    /\ (Done /\ TLRaised) =>
          key_findings = extract_key_findings_of(executive_inputs, feature_vectors, NoTF)
    /\ (Reported /\ TLRaised) =>
          monthly_exposure = compute_monthly_exposure_of(bureau_df[1], customer_id,
                                                         today, n_months_default)

\* the label by which extract_bureau_features normalised a tradeline into
\* its group
GroupingLabel(tl) == Strip(tl.loan_type_new)

\* C27: for every loan-type group built by extract_bureau_features, secured
\* is true iff some tradeline of the group has a secured label, the label
\* tested being the one by which the tradeline was normalised into the group.
C27_SecuredByGroupingLabel ==
    Extracted =>
        \A i \in VecIdx :
            Vec(i).secured <=>
                \E k \in 1..Len(GroupOf(Vec(i))) :
                    is_secured(GroupingLabel(GroupOf(Vec(i))[k]))

\* the Delinquency findings of the per-loan-type pass
IsTypeDelinquency(f) == f.category = "Delinquency" /\ f.subject # ""

TypeDelinquencySeverities ==
    { key_findings[k].severity : k \in { j \in FindIdx : IsTypeDelinquency(key_findings[j]) } }

PortfolioDelinquencySeverities ==
    { key_findings[k].severity : k \in { j \in FindIdx : IsPortfolioDelinquency(key_findings[j]) } }

\* C29: each vector's max_dpd is null or > 0 and its delinquency_flag is
\* true exactly when max_dpd is non-null; the portfolio has_delinquency is
\* true exactly when the portfolio max_dpd is non-null and > 0; the
\* portfolio delinquency finding is high_risk exactly when some per-type
\* delinquency finding is high_risk, and moderate_risk exactly when the most
\* severe per-type delinquency finding is moderate_risk.
C29_DelinquencyConsistent ==
    /\ Extracted =>
          \A i \in VecIdx :
              /\ Vec(i).max_dpd = NoneVal \/ Vec(i).max_dpd > 0
              /\ Vec(i).delinquency_flag <=> Vec(i).max_dpd # NoneVal
    /\ Aggregated =>
          (executive_inputs.has_delinquency <=>
              (executive_inputs.max_dpd # NoneVal /\ executive_inputs.max_dpd > 0))
    /\ Done =>
          /\ "high_risk" \in PortfolioDelinquencySeverities
                <=> "high_risk" \in TypeDelinquencySeverities
          /\ "moderate_risk" \in PortfolioDelinquencySeverities
                <=> ("moderate_risk" \in TypeDelinquencySeverities
                     /\ "high_risk" \notin TypeDelinquencySeverities)

\* two loan types, one with max DPD at most 30 and no finding of its own, one
\* whose moderate_risk finding is the most severe: the portfolio finding is
\* moderate_risk
C29_Witness ==
    /\ Done
    /\ Len(feature_vectors) = 2
    /\ \E i \in VecIdx : Vec(i).max_dpd # NoneVal /\ Vec(i).max_dpd <= 30
    /\ TypeDelinquencySeverities = {"moderate_risk"}
    /\ PortfolioDelinquencySeverities = {"moderate_risk"}

IsExemplaryProfile(f) ==
    /\ f.category = "Composite Signal" /\ f.severity = "positive"
    /\ f.finding = "Zero DPD, no missed payments, and good PL closure ratio"

IsDpdDespiteNoMiss(f) ==
    /\ f.category = "Composite Signal" /\ f.severity = "concern"
    /\ f.finding = "No formal missed payments but DPD detected"

\* C30: no output of extract_key_findings contains both the positive
\* composite "exemplary repayment profile" finding and the concern composite
\* "no formal missed payments but DPD detected" finding.
C30_ExemplaryExcludesDpdDetected ==
    Done =>
        ~ /\ \E i \in FindIdx : IsExemplaryProfile(key_findings[i])
          /\ \E j \in FindIdx : IsDpdDespiteNoMiss(key_findings[j])

\* ------------------------------------------------------------------------
\* Properties of call sequences (SpecCalls)
\* ------------------------------------------------------------------------
\* the calls that go through _load_bureau_data / _load_tl_features
NeedsBureauData ==
    \/ \E force_reload \in BOOLEAN : CallLoadBureauData(force_reload)
    \/ \E c \in CallCustomers : CallExtractBureauFeatures(c)
    \/ \E c \in CallCustomers, n_months \in CallMonths : CallComputeMonthlyExposure(c, n_months)

NeedsTLFeatures ==
    \/ \E force_reload \in BOOLEAN : CallLoadTLFeatures(force_reload)
    \/ \E c \in CallCustomers : CallExtractTradelineFeatures(c)

\* C25: in any sequence of calls of the three extractors and the two
\* loaders, a file is opened by the first call that needs it and afterwards
\* only by a loader called with force_reload=True; once a table is loaded,
\* every other step leaves the cached table as it is, also when the table
\* has no rows.
C25_LoadedOnceUnlessForced ==
    [][ /\ (bureau_df = << >> /\ NeedsBureauData) =>
              (bureau_reads' = bureau_reads + 1 /\ bureau_df' = << bureau_file >>)
        /\ (bureau_reads' # bureau_reads /\ bureau_df # << >>) =>
              CallLoadBureauData(TRUE)
        /\ (bureau_df # << >> /\ ~CallLoadBureauData(TRUE)) =>
              (bureau_df' = bureau_df /\ bureau_reads' = bureau_reads)
        /\ (tl_features_df = << >> /\ NeedsTLFeatures) =>
              (tl_reads' = tl_reads + 1 /\ tl_features_df' = << tl_file >>)
        /\ (tl_reads' # tl_reads /\ tl_features_df # << >>) =>
              CallLoadTLFeatures(TRUE)
        /\ (tl_features_df # << >> /\ ~CallLoadTLFeatures(TRUE)) =>
              (tl_features_df' = tl_features_df /\ tl_reads' = tl_reads)
      ]_vars

\* an extractor ran twice on a loaded table without rows, which was read once
C25_Witness ==
    /\ pc = "extract_bureau_features"
    /\ call_arg.prev_today # NoneVal
    /\ bureau_df = << << >> >>
    /\ bureau_reads = 1

\* the calendar month after month label a is label b
NextMonth(a, b) ==
    IF a.mo = 12 THEN b.mo = 1 /\ b.yr = a.yr + 1
    ELSE b.mo = a.mo + 1 /\ b.yr = a.yr

\* the rows of the customer of the last call in the cached table
CalledRows == customer_rows_of(bureau_df[1], customer_id)

\* C21: compute_monthly_exposure(c, n_months) returns exactly n_months month
\* labels, consecutive calendar months in oldest-to-newest order ending
\* with the current month; every series has length n_months; a loan type of
\* the customer has a series iff one of its monthly values is not zero.
C21_MonthlyExposureShape ==
    (pc = "compute_monthly_exposure" /\ call_ret.raised = "") =>
        LET n == call_arg.n_months
            months == monthly_exposure.months
            series == monthly_exposure.series
            window == months_window(call_arg.today, n)
        IN  /\ Len(months) = n
            /\ months[n] = [mo |-> (call_arg.today % 12) + 1,
                            yr |-> call_arg.today \div 12]
            /\ \A k \in 1..(n - 1) : NextMonth(months[k], months[k + 1])
            /\ \A i \in 1..Len(series) : Len(series[i][2]) = n
            /\ \A lt \in { canonical_of(CalledRows[i]) : i \in 1..Len(CalledRows) } :
                   (\E i \in 1..Len(series) : series[i][1] = lt)
                   <=> \E k \in 1..n :
                          exposure_amounts(group_rows(CalledRows, lt), window)[k] # 0

\* a vector without the one field computed from date.today()
WithoutPaymentAge(v) == [v EXCEPT !.months_since_last_payment = NoneVal]

\* C22: a call of extract_bureau_features that follows a call for the same
\* customer over the same loaded table returns too, with the same loan
\* types in the same order; the vectors are equal when the date is the
\* same, and whatever the two dates are they are equal in every field other
\* than months_since_last_payment.
C22_RepeatedExtractionEqual ==
    [][ (call_arg'.prev_today # NoneVal
           /\ \E c \in CallCustomers : CallExtractBureauFeatures(c)) =>
            /\ call_ret'.raised = ""
            /\ Len(feature_vectors') = Len(feature_vectors)
            /\ \A k \in 1..Len(feature_vectors) :
                   WithoutPaymentAge(feature_vectors'[k])
                       = WithoutPaymentAge(feature_vectors[k])
            /\ call_arg'.today = call_arg'.prev_today =>
                   feature_vectors' = feature_vectors
      ]_vars

\* the second of two calls a month apart returned a vector that carries a
\* payment age and a max DPD
C22_Witness ==
    /\ pc = "extract_bureau_features"
    /\ call_arg.prev_today # NoneVal
    /\ call_arg.prev_today < call_arg.today
    /\ \E k \in 1..Len(feature_vectors) :
           /\ feature_vectors[k].months_since_last_payment # NoneVal
           /\ feature_vectors[k].max_dpd # NoneVal

\* the rows of customer c in a table: the rows whose customer id is c
RowsOf(table, c) == SelectSeq(table, LAMBDA row : row.crn.kind = "num" /\ row.crn.v = c)

\* C26: extract_bureau_features, compute_monthly_exposure and
\* extract_tradeline_features leave the cached tables as they are, and what
\* they return (or raise) for customer c is what they return on the rows of
\* c alone, whatever calls came before and whatever the rows of other
\* customers hold, malformed customer ids and field values included.
C26_ExtractorsReadOnlyPerCustomer ==
    [][ /\ (\E c \in CallCustomers : CallExtractBureauFeatures(c)) =>
              LET own == RowsOf(bureau_df'[1], customer_id')
              IN  /\ bureau_df # << >> => bureau_df' = bureau_df
                  /\ tl_features_df' = tl_features_df
                  /\ IF extract_bureau_features_raises(own, customer_id')
                     THEN call_ret'.raised # ""
                     ELSE /\ call_ret'.raised = ""
                          /\ feature_vectors' =
                                 extract_bureau_features_of(own, customer_id', today)
        /\ (\E c \in CallCustomers, n \in CallMonths : CallComputeMonthlyExposure(c, n)) =>
              LET own == RowsOf(bureau_df'[1], customer_id')
              IN  /\ bureau_df # << >> => bureau_df' = bureau_df
                  /\ tl_features_df' = tl_features_df
                  /\ IF compute_monthly_exposure_raises(own, customer_id')
                     THEN call_ret'.raised # ""
                     ELSE /\ call_ret'.raised = ""
                          /\ monthly_exposure' =
                                 compute_monthly_exposure_of(own, customer_id', today,
                                                             call_arg'.n_months)
        /\ (\E c \in CallCustomers : CallExtractTradelineFeatures(c)) =>
              LET own == RowsOf(tl_features_df'[1], customer_id')
              IN  /\ tl_features_df # << >> => tl_features_df' = tl_features_df
                  /\ bureau_df' = bureau_df
                  /\ IF extract_tradeline_features_raises(own, customer_id')
                     THEN call_ret'.raised # ""
                     ELSE /\ call_ret'.raised = ""
                          /\ tradeline_features' =
                                 extract_tradeline_features_of(own, customer_id')
      ]_vars

\* C28: bureau_credit_card_info(customer) returns without raising;
\* has_credit_cards is true exactly when extract_bureau_features(customer)
\* holds the credit-card loan type, count is that vector's loan_count, and
\* count is 0 when the customer has no credit-card tradeline.
C28_CreditCardInfoReturns ==
    pc = "bureau_credit_card_info" =>
        LET cc_vec == vectors_get(extract_bureau_features_of(bureau_df[1], customer_id,
                                                             call_arg.today), "CC")
        IN  /\ call_ret.raised = ""
            /\ call_ret.has_credit_cards <=> cc_vec # << >>
            /\ call_ret.count = IF cc_vec # << >> THEN cc_vec[1].loan_count ELSE 0

====
